---- MODULE Spec2Model ----
(***************************************************************************)
(* Gladelike (src/game.js): level generation, placement, field of view,    *)
(* movement, combat and the session's events, as a state machine.          *)
(*                                                                         *)
(* Coordinates are pairs <<x, y>>.  Real numbers (illumination, light      *)
(* intensity, Math.random()) are fixed-point integers in units of 1/UNIT.  *)
(***************************************************************************)
EXTENDS Integers, Sequences, FiniteSets, TLC

(***************************************************************************)
(* Program constants (src/game.js:5-10) and the sizes the model scales.    *)
(***************************************************************************)
MAP_WIDTH == 10
MAP_HEIGHT == 5
FOV_RADIUS == 6
BASE_MONSTERS == 6
MAX_LEVELS == 5

\* Fixed-point unit of the model's reals.
UNIT == 1000

Max(a, b) == IF a >= b THEN a ELSE b
Min(a, b) == IF a <= b THEN a ELSE b
Abs(a) == IF a >= 0 THEN a ELSE -a

Cells == (0 .. MAP_WIDTH - 1) \X (0 .. MAP_HEIGHT - 1)

InBounds(x, y) == x >= 0 /\ x < MAP_WIDTH /\ y >= 0 /\ y < MAP_HEIGHT

\* Row-major scan order of the nested "for y ... for x ..." loops.
ScanIndex(c) == c[2] * MAP_WIDTH + c[1]

ScanCells == [i \in 1 .. MAP_WIDTH * MAP_HEIGHT |->
                 <<(i - 1) % MAP_WIDTH, (i - 1) \div MAP_WIDTH>>]

\* The cells of S in scan order.
SortedByScan(S) == SelectSeq(ScanCells, LAMBDA c : c \in S)

\* Math.floor(Math.random() * n) for a roll r in 0 .. UNIT-1 (r/UNIT in [0,1)).
RandIndex(r, n) == (r * n) \div UNIT

(***************************************************************************)
(* Tiles                                                                   *)
(***************************************************************************)
WallTypes == {"wallDirtTop", "wallDirtSide", "wallInner", "wallStoneTop",
              "wallStoneSide", "wallBrickTop", "wallBrickSide1", "wallBrickSide2"}

isWallTile(tileType) == tileType \in WallTypes

ImpassableFeatures == {"tree", "smallTree"}

WallTheme(level) ==
    CASE level = 1 -> "wallDirtTop"
      [] level = 2 -> "wallStoneTop"
      [] level = 3 -> "wallBrickTop"
      [] level = 4 -> "wallStoneSide"
      [] level = 5 -> "wallBrickSide1"
      [] OTHER -> "wallStoneTop"

FloorTheme(level) ==
    CASE level = 1 -> <<"floorDirt1", "floorDirt2", "floorDirt3">>
      [] level = 2 -> <<"floorStone1", "floorStone2">>
      [] level = 3 -> <<"floorStone2", "floorStone3">>
      [] level = 4 -> <<"floorGrass1", "floorGrass2">>
      [] level = 5 -> <<"floorStone3", "floorDark">>
      [] OTHER -> <<"floorStone1", "floorStone2">>

WallTile(level) == [type |-> WallTheme(level), feature |-> "none"]

FloorTile(level, r) ==
    [type |-> FloorTheme(level)[RandIndex(r, Len(FloorTheme(level))) + 1],
     feature |-> "none"]

(***************************************************************************)
(* generateMap: the effective area of a depth                              *)
(***************************************************************************)
EffectiveWidth(level) ==
    IF level <= 3 THEN (MAP_WIDTH * 6) \div 10 ELSE (MAP_WIDTH * 8) \div 10

EffectiveHeight(level) ==
    IF level <= 3 THEN (MAP_HEIGHT * 6) \div 10 ELSE (MAP_HEIGHT * 8) \div 10

MarginX(level) == (MAP_WIDTH - EffectiveWidth(level)) \div 2

MarginY(level) == (MAP_HEIGHT - EffectiveHeight(level)) \div 2

EffectiveArea(level) ==
    {c \in Cells : /\ c[1] >= MarginX(level)
                   /\ c[1] < MarginX(level) + EffectiveWidth(level)
                   /\ c[2] >= MarginY(level)
                   /\ c[2] < MarginY(level) + EffectiveHeight(level)}

\* tempMap after the generator's callback: the floor cells (value 0 in tempMap).
\* `raw` is the set of cells the cellular automaton reports as floor.
TempFloor(level, raw) == raw \cap EffectiveArea(level)

(***************************************************************************)
(* floodFill and findConnectedRegions over tempMap (its floor cells F)     *)
(***************************************************************************)
\* Variant that looks at the right and lower neighbours only.
NeighborsAhead(c) == << <<c[1] + 1, c[2]>>, <<c[1], c[2] + 1>> >>

Neighbors4(c) ==
    << <<c[1] - 1, c[2]>>, <<c[1] + 1, c[2]>>, <<c[1], c[2] - 1>>, <<c[1], c[2] + 1>> >>

\* The neighbours floodFill pushes: in bounds, not visited, not a wall.
PushedNeighbors(F, c, visited) ==
    SelectSeq(Neighbors4(c),
              LAMBDA n : InBounds(n[1], n[2]) /\ n \notin visited /\ n \in F)

\* The while loop of floodFill: returns <<region, visited>>.
RECURSIVE FloodLoop(_, _, _, _)
FloodLoop(F, queue, region, visited) ==
    IF queue = <<>> THEN <<region, visited>>
    ELSE LET c == Head(queue)
         IN IF c \in visited
            THEN FloodLoop(F, Tail(queue), region, visited)
            ELSE FloodLoop(F,
                           Tail(queue) \o PushedNeighbors(F, c, visited \cup {c}),
                           Append(region, c),
                           visited \cup {c})

floodFill(F, start, visited) == FloodLoop(F, <<start>>, <<>>, visited)

\* The scan of findConnectedRegions over the cells in row-major order.
RECURSIVE RegionScan(_, _, _, _)
RegionScan(F, cells, regions, visited) ==
    IF cells = <<>> THEN regions
    ELSE LET c == Head(cells)
         IN IF c \in visited \/ c \notin F
            THEN RegionScan(F, Tail(cells), regions, visited)
            ELSE LET res == floodFill(F, c, visited)
                 IN RegionScan(F, Tail(cells), Append(regions, res[1]), res[2])

findConnectedRegions(F) == RegionScan(F, ScanCells, <<>>, {})

SeqToSet(s) == {s[i] : i \in DOMAIN s}

\* Variant without the sort: the region found first.
FirstRegion(regions) == SeqToSet(regions[1])

\* regions.sort((a, b) => b.length - a.length)[0]: the sort is stable, so the
\* first region of maximal length in discovery order.
LargestRegion(regions) ==
    LET i == CHOOSE a \in DOMAIN regions :
                 /\ \A b \in DOMAIN regions : Len(regions[b]) <= Len(regions[a])
                 /\ \A b \in DOMAIN regions :
                        Len(regions[b]) = Len(regions[a]) => a <= b
    IN SeqToSet(regions[i])

(***************************************************************************)
(* placeFeatureOnEmptyFloor                                                *)
(***************************************************************************)
EmptyFloorTiles(m) ==
    SortedByScan({c \in Cells : ~isWallTile(m[c].type) /\ m[c].feature = "none"})

\* Variant that picks among all tiles, walls included.
placeFeatureOnAnyTile(m, featureType, r) ==
    LET c == ScanCells[RandIndex(r, Len(ScanCells)) + 1]
    IN [m EXCEPT ![c].feature = featureType]

placeFeatureOnEmptyFloor(m, featureType, r) ==
    LET availableTiles == EmptyFloorTiles(m)
    IN IF Len(availableTiles) > 0
       THEN LET c == availableTiles[RandIndex(r, Len(availableTiles)) + 1]
            IN [m EXCEPT ![c].feature = featureType]
       ELSE m

(***************************************************************************)
(* generateMap for a raw grid that has a floor region                      *)
(***************************************************************************)
HasRegion(level, raw) == TempFloor(level, raw) # {}

\* this.map with floor exactly on the cells of `kept`.
GridWithFloor(level, kept, rTile) ==
    [c \in Cells |-> IF c \in kept THEN FloorTile(level, rTile) ELSE WallTile(level)]

\* Variant without the pruning: floor on every region.
UnprunedMap(level, raw, rTile) == GridWithFloor(level, TempFloor(level, raw), rTile)

\* The grid after pruning: floor exactly on the largest region.
PrunedMap(level, raw, rTile) ==
    GridWithFloor(level, LargestRegion(findConnectedRegions(TempFloor(level, raw))), rTile)

\* Variant with stairs on the final depth as well.
StairsFeatureAlways(level) == "stairsDown"

StairsFeature(level) == IF level < MAX_LEVELS THEN "stairsDown" ELSE "door"

generateMap(level, raw, rTile, rStairs) ==
    placeFeatureOnEmptyFloor(PrunedMap(level, raw, rTile), StairsFeature(level), rStairs)

(***************************************************************************)
(* isValidMove                                                             *)
(***************************************************************************)
NpcAt(npcList, x, y) == \E i \in DOMAIN npcList : npcList[i] = <<x, y>>

MonsterAt(mons, x, y) ==
    \E i \in DOMAIN mons : mons[i].x = x /\ mons[i].y = y

\* Variant that lets trees be walked through.
isValidMoveThroughTrees(m, npcList, x, y) ==
    IF ~InBounds(x, y) THEN FALSE
    ELSE IF isWallTile(m[<<x, y>>].type) THEN FALSE
    ELSE ~NpcAt(npcList, x, y)

isValidMove(m, npcList, x, y) ==
    IF ~InBounds(x, y) THEN FALSE
    ELSE IF isWallTile(m[<<x, y>>].type) THEN FALSE
    ELSE IF m[<<x, y>>].feature \in ImpassableFeatures THEN FALSE
    ELSE ~NpcAt(npcList, x, y)

ValidCells(m, npcList) == {c \in Cells : isValidMove(m, npcList, c[1], c[2])}

(***************************************************************************)
(* placeCharacters                                                         *)
(***************************************************************************)
NoPlayer == <<>>

CenterX == MAP_WIDTH \div 2

CenterY == MAP_HEIGHT \div 2

Chebyshev(a, b) == Max(Abs(a[1] - b[1]), Abs(a[2] - b[2]))

\* The search in growing squares around the centre: the first valid cell, by
\* radius and then in the (dy, dx) loop order, or NoPlayer when none is found
\* below the radius max(MAP_WIDTH, MAP_HEIGHT).
PlayerSpawn(m) ==
    LET valid == {c \in ValidCells(m, <<>>) :
                     Chebyshev(c, <<CenterX, CenterY>>) < Max(MAP_WIDTH, MAP_HEIGHT)}
    IN IF valid = {} THEN NoPlayer
       ELSE CHOOSE c \in valid :
                \A d \in valid :
                    \/ Chebyshev(c, <<CenterX, CenterY>>) < Chebyshev(d, <<CenterX, CenterY>>)
                    \/ /\ Chebyshev(c, <<CenterX, CenterY>>) = Chebyshev(d, <<CenterX, CenterY>>)
                       /\ ScanIndex(c) <= ScanIndex(d)

NumNPCs(level) == Max(2, 7 - level)

AvailableForNPC(m, pl, npcList) ==
    SortedByScan({c \in ValidCells(m, npcList) : c # pl})

\* The NPC loop from iteration i on; rs[i] is the roll that picks the position.
RECURSIVE PlaceNPCs(_, _, _, _, _, _)
PlaceNPCs(m, pl, npcList, i, n, rs) ==
    IF i > n THEN npcList
    ELSE LET avail == AvailableForNPC(m, pl, npcList)
         IN IF Len(avail) = 0 THEN npcList
            ELSE PlaceNPCs(m, pl,
                           Append(npcList, avail[RandIndex(rs[i], Len(avail)) + 1]),
                           i + 1, n, rs)

\* Returns the new <<player, npcs>>; the old player is kept when no valid
\* position is found (the early return).
CharactersFrom(m, level, oldPlayer, rs, p) ==
    IF p = NoPlayer THEN <<oldPlayer, <<>> >>
    ELSE <<p, PlaceNPCs(m, p, <<>>, 1, NumNPCs(level), rs)>>

placeCharacters(m, level, oldPlayer, rs) ==
    CharactersFrom(m, level, oldPlayer, rs, PlayerSpawn(m))

(***************************************************************************)
(* placeFirepits                                                           *)
(***************************************************************************)
FirepitLight == [lightRadius |-> 3, lightIntensity |-> UNIT]

IsExitTile(m, level, c) ==
    \/ m[c].feature = "stairsDown"
    \/ (level = MAX_LEVELS /\ m[c].feature = "door")

\* The first stairs or victory-door tile in scan order, <<-1, -1>> when none.
FindStairs(m, level) ==
    LET found == {c \in Cells : IsExitTile(m, level, c)}
    IN IF found = {} THEN <<-1, -1>>
       ELSE CHOOSE c \in found : \A d \in found : ScanIndex(c) <= ScanIndex(d)

\* Offsets in the (dy, dx) loop order, without the centre and the far corners.
FirepitOffsets ==
    SelectSeq([i \in 1 .. 25 |-> <<((i - 1) % 5) - 2, ((i - 1) \div 5) - 2>>],
              LAMBDA o : /\ ~(o[1] = 0 /\ o[2] = 0)
                         /\ ~(Abs(o[1]) = Abs(o[2]) /\ Abs(o[1]) = 2))

FirepitCandidates(m, npcList, mons, stairs) ==
    LET at(o) == <<stairs[1] + o[1], stairs[2] + o[2]>>
        ok(o) == /\ InBounds(at(o)[1], at(o)[2])
                 /\ isValidMove(m, npcList, at(o)[1], at(o)[2])
                 /\ ~NpcAt(npcList, at(o)[1], at(o)[2])
                 /\ ~MonsterAt(mons, at(o)[1], at(o)[2])
        kept == SelectSeq(FirepitOffsets, ok)
    IN [i \in DOMAIN kept |-> at(kept[i])]

\* The new lightSources (animatedTiles holds the same firepits).
\* The light source of a firepit at pos.
FirepitAt(pos) ==
    [x |-> pos[1], y |-> pos[2],
     baseIntensity |-> FirepitLight.lightIntensity,
     currentIntensity |-> FirepitLight.lightIntensity,
     radius |-> FirepitLight.lightRadius]

\* One firepit among the candidate positions, none when there is none.
FirepitAmong(cand, r) ==
    IF Len(cand) = 0 THEN <<>> ELSE <<FirepitAt(cand[RandIndex(r, Len(cand)) + 1])>>

FirepitNear(m, npcList, mons, stairs, r) ==
    IF stairs = <<-1, -1>> THEN <<>>
    ELSE FirepitAmong(FirepitCandidates(m, npcList, mons, stairs), r)

placeFirepits(m, level, npcList, mons, r) ==
    FirepitNear(m, npcList, mons, FindStairs(m, level), r)

(***************************************************************************)
(* placeMonsters                                                           *)
(***************************************************************************)
monsterStats ==
    [goblin |-> [health |-> 20, damage |-> <<2, 5>>],
     giantRat |-> [health |-> 15, damage |-> <<1, 4>>],
     smallMyconid |-> [health |-> 12, damage |-> <<1, 3>>],
     orc |-> [health |-> 30, damage |-> <<3, 7>>],
     goblinArcher |-> [health |-> 20, damage |-> <<2, 6>>],
     giantSpider |-> [health |-> 25, damage |-> <<2, 6>>],
     largeMyconid |-> [health |-> 25, damage |-> <<2, 5>>],
     orcBlademaster |-> [health |-> 40, damage |-> <<4, 8>>],
     orcWizard |-> [health |-> 25, damage |-> <<3, 8>>],
     skeleton |-> [health |-> 30, damage |-> <<3, 6>>],
     ghoul |-> [health |-> 35, damage |-> <<3, 7>>]]

MonsterPool(level) ==
    CASE level = 1 -> <<"goblin", "giantRat">>
      [] level = 2 -> <<"goblin", "goblinArcher", "smallMyconid">>
      [] level = 3 -> <<"orc", "goblinArcher", "largeMyconid">>
      [] level = 4 -> <<"orc", "orcBlademaster", "giantSpider">>
      [] level = 5 -> <<"orcWizard", "skeleton", "ghoul">>
      [] OTHER -> <<"goblin", "orc", "skeleton">>

NumMonsters(level) == BASE_MONSTERS + (level * 3) \div 2

\* Variant without the density cap.
AdjustedCountUncapped(level, floorTileCount) == NumMonsters(level)

\* Math.min(numMonsters, Math.floor(floorTileCount * 0.1))
AdjustedCount(level, floorTileCount) ==
    Min(NumMonsters(level), floorTileCount \div 10)

\* adjustedNumMonsters, with floorTileCount counted over the grid.
AdjustedNumMonsters(m, level, npcList) ==
    AdjustedCount(level, Cardinality(ValidCells(m, npcList)))

AvailableSpots(m, pl, npcList, mons) ==
    SortedByScan({c \in ValidCells(m, npcList) :
                     /\ c # pl
                     /\ ~MonsterAt(mons, c[1], c[2])
                     /\ m[c].feature # "stairsDown"
                     /\ m[c].feature # "door"})

\* The monster loop from iteration i on; rs[i] = <<position roll, type roll>>.
RECURSIVE PlaceMonsterLoop(_, _, _, _, _, _, _, _)
PlaceMonsterLoop(m, level, pl, npcList, mons, i, n, rs) ==
    IF i > n THEN mons
    ELSE LET avail == AvailableSpots(m, pl, npcList, mons)
         IN IF Len(avail) = 0 THEN mons
            ELSE LET spot == avail[RandIndex(rs[i][1], Len(avail)) + 1]
                     pool == MonsterPool(level)
                     mtype == pool[RandIndex(rs[i][2], Len(pool)) + 1]
                 IN PlaceMonsterLoop(m, level, pl, npcList,
                        Append(mons, [x |-> spot[1], y |-> spot[2], type |-> mtype,
                                          health |-> monsterStats[mtype].health]),
                        i + 1, n, rs)

placeMonsters(m, level, pl, npcList, rs) ==
    PlaceMonsterLoop(m, level, pl, npcList, <<>>, 1,
                     AdjustedNumMonsters(m, level, npcList), rs)

(***************************************************************************)
(* The random source.  A roll r stands for Math.random() = r / UNIT.       *)
(***************************************************************************)
RAND_LEVELS == 1

\* The rolls drawn for a value: RAND_LEVELS evenly spaced ones and the largest.
Rolls == {(k * UNIT) \div RAND_LEVELS : k \in 0 .. RAND_LEVELS - 1} \cup {UNIT - 1}

\* One roll for each outcome of Math.floor(Math.random() * n).
IndexRolls(n) == {(k * UNIT + n - 1) \div n : k \in 0 .. n - 1}

(***************************************************************************)
(* The setups of a session.  A choice ch fixes what the random source      *)
(* yields during one level setup: ch.raw the automaton's floor cells, and  *)
(* the rolls of generateMap and the placements in call order.              *)
(***************************************************************************)
\* The rolls of a setup: one for the floor tile, the stairs and the firepit,
\* one for every NPC, a pair <<position, type>> for every monster.
SetupRolls(rStairs, rNpc, rFire, rMon) ==
    [tile |-> 0, stairs |-> rStairs,
     npc |-> [i \in 1 .. NumNPCs(1) |-> rNpc],
     fire |-> rFire,
     mon |-> [i \in 1 .. NumMonsters(MAX_LEVELS) |-> rMon]]

\* Two caves of the automaton: one that fills the effective area, and a nook
\* of two rows at the centre.
OpenCave(level) == EffectiveArea(level)

NookCave ==
    {c \in Cells : /\ c[1] >= CenterX - 2 /\ c[1] <= CenterX + 1
                   /\ c[2] >= CenterY /\ c[2] <= CenterY + 1}

\* What the random source yields during the setups of a session: on the first
\* depth the open cave (with room for a monster), deeper the nook; the stairs
\* on the first empty tile and the NPCs from the last one, or (second depth)
\* both from the first one.
SetupChoices(level) ==
    IF level = 1
    THEN {[raw |-> OpenCave(level)] @@ SetupRolls(0, UNIT - 1, 0, <<UNIT - 1, 0>>)}
    ELSE {[raw |-> NookCave] @@ SetupRolls(0, UNIT - 1, 0, <<0, 0>>)}
         \cup IF level = 2
              THEN {[raw |-> NookCave] @@ SetupRolls(0, 0, 0, <<0, 0>>)}
              ELSE {}

\* A table with all its values computed.
Tabulated(f) == IF f = f THEN f ELSE f

\* generateMap, placeCharacters and placeMonsters of a level setup (the
\* firepits, placed between the last two, do not enter them).
PlacementWith(m, level, pc, ch) ==
    [map |-> m, player |-> pc[1], npcs |-> pc[2],
     monsters |-> placeMonsters(m, level, pc[1], pc[2], ch.mon)]

PlacementOn(m, level, oldPlayer, ch) ==
    PlacementWith(m, level, placeCharacters(m, level, oldPlayer, ch.npc), ch)

Placement(level, oldPlayer, ch) ==
    PlacementOn(generateMap(level, ch.raw, ch.tile, ch.stairs), level, oldPlayer, ch)

\* The placements of the session's setups, computed once.
SessionPlacements ==
    Tabulated([q \in UNION {{<<level, ch>> : ch \in SetupChoices(level)} :
                               level \in 1 .. MAX_LEVELS} |->
                  Placement(q[1], NoPlayer, q[2])])

\* Placement, looked up when tabulated: with a spawn position found, the
\* old player does not enter the result.
PlacementIn(T, q, computed) ==
    IF q \in DOMAIN T /\ T[q].player # NoPlayer THEN T[q] ELSE computed

PlacementOf(level, oldPlayer, ch) ==
    PlacementIn(SessionPlacements, <<level, ch>>, Placement(level, oldPlayer, ch))

(***************************************************************************)
(* ROT.FOV.PreciseShadowcasting, as computeFOV and computeLightSourceFOV   *)
(* use it: the set of coordinates the callback is invoked for.  Arcs are   *)
(* fractions <<numerator, denominator>> of the ring; SHADOWS is the sorted *)
(* list of shadow edges.  Indices are the library's (from 0).              *)
(***************************************************************************)
\* The r-th ring around <<ox, oy>> (topology 8): its i-th cell, i in 0 .. 8r-1.
CircleCell(ox, oy, r, i) ==
    LET side == i \div (2 * r)
        j == i % (2 * r)
    IN IF side = 0 THEN <<ox - r, oy + r - j>>
       ELSE IF side = 1 THEN <<ox - r + j, oy - r>>
       ELSE IF side = 2 THEN <<ox + r, oy - r + j>>
       ELSE <<ox + r - j, oy + r>>

\* SHADOWS.splice(index, remove, ...ins)
Splice(S, index, remove, ins) ==
    SubSeq(S, 1, index) \o ins \o SubSeq(S, index + remove + 1, Len(S))

\* index1: the first shadow >= A1 (Len(S) when none).
ShadowIndex1(S, A1) ==
    LET hits == {k \in 0 .. Len(S) - 1 : S[k + 1][1] * A1[2] - A1[1] * S[k + 1][2] >= 0}
    IN IF hits = {} THEN Len(S) ELSE CHOOSE k \in hits : \A h \in hits : k <= h

\* index2: the last shadow <= A2 (-1 when none).
ShadowIndex2(S, A2) ==
    LET hits == {k \in 0 .. Len(S) - 1 : A2[1] * S[k + 1][2] - S[k + 1][1] * A2[2] >= 0}
    IN IF hits = {} THEN -1 ELSE CHOOSE k \in hits : \A h \in hits : k >= h

\* _checkVisibility for an arc that does not wrap, once index1 and index2
\* are found: [vis, S].
ArcVerdict(A1, A2, blocks, S, index1, index2) ==
    LET edge1 == /\ index1 < Len(S)
                 /\ S[index1 + 1][1] * A1[2] - A1[1] * S[index1 + 1][2] = 0
                 /\ index1 % 2 = 0
        edge2 == /\ index2 >= 0
                 /\ A2[1] * S[index2 + 1][2] - S[index2 + 1][1] * A2[2] = 0
                 /\ index2 % 2 = 1
        hidden == \/ (index1 = index2 /\ (edge1 \/ edge2))
                  \/ (edge1 /\ edge2 /\ index1 + 1 = index2 /\ index2 % 2 = 1)
                  \/ (index1 > index2 /\ index1 % 2 = 1)
        remove == index2 - index1 + 1
    IN IF hidden THEN [vis |-> FALSE, S |-> S]
       ELSE IF remove % 2 = 1
       THEN IF index1 % 2 = 1
            THEN LET P == S[index1 + 1]
                 IN [vis |-> A2[1] * P[2] - P[1] * A2[2] > 0,
                     S |-> IF blocks THEN Splice(S, index1, remove, <<A2>>) ELSE S]
            ELSE LET P == S[index2 + 1]
                 IN [vis |-> P[1] * A1[2] - A1[1] * P[2] > 0,
                     S |-> IF blocks THEN Splice(S, index1, remove, <<A1>>) ELSE S]
       ELSE IF index1 % 2 = 1
            THEN LET P1 == S[index1 + 1]
                     P2 == S[index2 + 1]
                 IN [vis |-> P2[1] * P1[2] - P1[1] * P2[2] > 0,
                     S |-> IF blocks THEN Splice(S, index1, remove, <<>>) ELSE S]
            ELSE [vis |-> TRUE,
                  S |-> IF blocks THEN Splice(S, index1, remove, <<A1, A2>>) ELSE S]

CheckArc(A1, A2, blocks, S) ==
    ArcVerdict(A1, A2, blocks, S, ShadowIndex1(S, A1), ShadowIndex2(S, A2))

\* The second half of a wrapping arc, after the first gave v1.
SecondArc(v1, v2) == [vis |-> v1.vis \/ v2.vis, S |-> v2.S]

WrappedArc(v1, A2, blocks) == SecondArc(v1, CheckArc(<<0, 1>>, A2, blocks, v1.S))

\* _checkVisibility: an arc with A1 > A2 wraps and is split in two.
CheckVisibility(A1, A2, blocks, S) ==
    IF A1[1] > A2[1]
    THEN WrappedArc(CheckArc(A1, <<A1[2], A1[2]>>, blocks, S), A2, blocks)
    ELSE CheckArc(A1, A2, blocks, S)

FullShadow(S) == Len(S) = 2 /\ S[1][1] = 0 /\ S[2][1] = S[2][2]

\* The arc <<A1, A2>> of the i-th cell of ring r.
ArcStart(r, i) == <<IF i > 0 THEN 2 * i - 1 ELSE 16 * r - 1, 16 * r>>

ArcEnd(r, i) == <<2 * i + 1, 16 * r>>

\* The inner loop over ring r from its cell i on: the shadows, the cells
\* seen, and whether the cutoff (a full shadow) ended the computation.
RECURSIVE RingCells(_, _, _, _, _, _)
RingStep(open, o, r, i, c, res, seen) ==
    IF FullShadow(res.S)
    THEN [S |-> res.S, seen |-> IF res.vis THEN seen \cup {c} ELSE seen, cut |-> TRUE]
    ELSE RingCells(open, o, r, i + 1, res.S, IF res.vis THEN seen \cup {c} ELSE seen)

\* The visibility of the i-th cell c of ring r, then the rest of the ring.
RingCell(open, o, r, i, c, S, seen) ==
    RingStep(open, o, r, i, c,
             CheckVisibility(ArcStart(r, i), ArcEnd(r, i), c \notin open, S), seen)

RingCells(open, o, r, i, S, seen) ==
    IF i >= 8 * r THEN [S |-> S, seen |-> seen, cut |-> FALSE]
    ELSE RingCell(open, o, r, i, CircleCell(o[1], o[2], r, i), S, seen)

\* The outer loop over the rings r .. R; `open` is where light passes.
RECURSIVE RingLoop(_, _, _, _, _, _)
RingNext(open, o, R, r, ring) ==
    IF ring.cut THEN ring.seen ELSE RingLoop(open, o, R, r + 1, ring.S, ring.seen)

RingLoop(open, o, R, r, S, seen) ==
    IF r > R THEN seen ELSE RingNext(open, o, R, r, RingCells(open, o, r, 0, S, seen))

\* fov.compute(o.x, o.y, R, callback): the cells the callback sees.
ShadowCast(open, o, R) ==
    IF o \notin open THEN {o} ELSE RingLoop(open, o, R, 1, <<>>, {o})

\* The cells where light passes, for every layout of the session.
OpenTableOf(T) ==
    [k \in {<<T[q].map, T[q].npcs>> : q \in DOMAIN T} |-> ValidCells(k[1], k[2])]

OpenTable == Tabulated(OpenTableOf(SessionPlacements))

\* The fields of view of the session's layouts, computed once: from every
\* open cell, with the player's radius and with the firepit's.
FovRadii == {FOV_RADIUS, FirepitLight.lightRadius}

FovTableOf(T) ==
    [open \in {T[k] : k \in DOMAIN T} |->
        [o \in open |-> [R \in FovRadii |-> ShadowCast(open, o, R)]]]

FovTable == Tabulated(FovTableOf(OpenTable))

\* ShadowCast, looked up when tabulated.
FovIn(T, open, o, R, computed) ==
    IF open \in DOMAIN T /\ o \in open /\ R \in FovRadii THEN T[open][o][R] ELSE computed

FovCells(open, o, R) == FovIn(FovTable, open, o, R, ShadowCast(open, o, R))

(***************************************************************************)
(* Illumination values (fixed point, UNIT = 1.0)                           *)
(***************************************************************************)
\* Math.floor of the square root, by bisection.
RECURSIVE SqrtSearch(_, _, _)
SqrtSearch(n, lo, hi) ==
    IF lo >= hi THEN lo
    ELSE LET mid == (lo + hi + 1) \div 2
         IN IF mid * mid <= n THEN SqrtSearch(n, mid, hi) ELSE SqrtSearch(n, lo, mid - 1)

\* Math.sqrt(d2), in units of 1/UNIT.
SqrtOf(d2) == SqrtSearch(d2 * UNIT * UNIT, 0, Min(d2, 12) * UNIT)

\* The square roots of the squared distances within the radius, computed once.
SqrtTable == Tabulated([d2 \in 0 .. 2 * FOV_RADIUS * FOV_RADIUS |-> SqrtOf(d2)])

SqrtIn(T, d2, computed) == IF d2 \in DOMAIN T THEN T[d2] ELSE computed

SqrtFix(d2) == SqrtIn(SqrtTable, d2, SqrtOf(d2))

\* The player's illumination of a tile at offset (dx, dy):
\* Math.min(1, Math.pow(1 - Math.min(distance / FOV_RADIUS, 1) * 0.6, 3) * 1.5)
VisibilityAt(distance) ==
    LET normalizedDistance == Min(distance \div FOV_RADIUS, UNIT)
        b == UNIT - (normalizedDistance * 6) \div 10
        visibilityValue == (b * b * b) \div (UNIT * UNIT)
    IN Min(UNIT, (visibilityValue * 15) \div 10)

PlayerVisibility(dx, dy) == VisibilityAt(SqrtFix(dx * dx + dy * dy))

\* A light's illumination of a tile at offset (dx, dy) before the flicker:
\* Math.pow(1 - Math.min(distance / radius, 1), 2)
BaseVisibilityAt(radius, distance) ==
    LET normalizedDistance == Min(distance \div radius, UNIT)
    IN ((UNIT - normalizedDistance) * (UNIT - normalizedDistance)) \div UNIT

BaseVisibility(radius, dx, dy) ==
    BaseVisibilityAt(radius, (SqrtFix(dx * dx + dy * dy) * 7) \div 10
                                 + ((Abs(dx) + Abs(dy)) * UNIT * 3) \div 10)

\* baseVisibility * light.currentIntensity
FlickeredVisibility(light, base) == (base * light.currentIntensity) \div UNIT

\* JavaScript's  t[key] || 0
OrZero(t, k) == IF k \in DOMAIN t THEN t[k] ELSE 0

(***************************************************************************)
(* computeFOV and computeLightSourceFOV                                    *)
(***************************************************************************)
\* lightPasses of both computations: isValidMove.
OpenCells(m, npcList) == ValidCells(m, npcList)

\* visibleTiles after the player's fov.compute from pl saw `cells`.
PlayerLit(cells, pl) == [k \in cells |-> PlayerVisibility(k[1] - pl[1], k[2] - pl[2])]

PlayerVisible(open, pl) == PlayerLit(FovCells(open, pl, FOV_RADIUS), pl)

\* The tiles among `cells` a light at pos reaches (those inside the grid)
\* with their illumination before the flicker.
LightLit(cells, pos, radius) ==
    [k \in {c \in cells : InBounds(c[1], c[2])} |->
        BaseVisibility(radius, k[1] - pos[1], k[2] - pos[2])]

LightBase(open, pos, radius) == LightLit(FovCells(open, pos, radius), pos, radius)

\* Both, computed once for the session's layouts.
VisibleTableOf(T) ==
    [open \in DOMAIN T |->
        [o \in open |->
            [player |-> PlayerLit(T[open][o][FOV_RADIUS], o),
             light |-> LightLit(T[open][o][FirepitLight.lightRadius], o,
                                FirepitLight.lightRadius)]]]

VisibleTable == Tabulated(VisibleTableOf(FovTable))

PlayerVisibleIn(T, open, pl, computed) ==
    IF open \in DOMAIN T /\ pl \in open THEN T[open][pl].player ELSE computed

PlayerVisibleOf(open, pl) ==
    PlayerVisibleIn(VisibleTable, open, pl, PlayerVisible(open, pl))

LightBaseIn(T, open, pos, radius, computed) ==
    IF open \in DOMAIN T /\ pos \in open /\ radius = FirepitLight.lightRadius
    THEN T[open][pos].light
    ELSE computed

LightBaseOf(open, pos, radius) ==
    LightBaseIn(VisibleTable, open, pos, radius, LightBase(open, pos, radius))

\* Variant of the player's callback that records nothing in exploredTiles.
PlayerSeenUnrecorded(seen, explored) == [visible |-> seen, explored |-> explored]

\* The callback of the player's fov.compute, over all the cells it sees:
\* visibleTiles is rebuilt, exploredTiles gets 0 where it has no (or a 0) entry.
PlayerSeen(seen, explored) ==
    [visible |-> seen,
     explored |-> [k \in DOMAIN explored \cup DOMAIN seen |->
                      IF k \in DOMAIN seen /\ OrZero(explored, k) = 0 THEN 0
                      ELSE explored[k]]]

PlayerPass(open, pl, explored) == PlayerSeen(PlayerVisibleOf(open, pl), explored)

\* The callback of a light's fov.compute over the tiles it reaches, `base`
\* their illumination before the flicker.  Variant that overwrites the
\* remembered illumination instead of raising it.
LightSeenOverwriting(light, base, fov) ==
    [visible |-> [k \in DOMAIN fov.visible \cup DOMAIN base |->
                     IF k \in DOMAIN base
                     THEN Max(OrZero(fov.visible, k), FlickeredVisibility(light, base[k]))
                     ELSE fov.visible[k]],
     explored |-> [k \in DOMAIN fov.explored \cup DOMAIN base |->
                      IF k \in DOMAIN base
                      THEN (FlickeredVisibility(light, base[k]) * 3) \div 10
                      ELSE fov.explored[k]]]

\* Variant that adds a light's illumination to the one already there.
LightSeenAdding(light, base, fov) ==
    [visible |-> [k \in DOMAIN fov.visible \cup DOMAIN base |->
                     IF k \in DOMAIN base
                     THEN OrZero(fov.visible, k) + FlickeredVisibility(light, base[k])
                     ELSE fov.visible[k]],
     explored |-> [k \in DOMAIN fov.explored \cup DOMAIN base |->
                      IF k \in DOMAIN base
                      THEN Max(OrZero(fov.explored, k),
                               (FlickeredVisibility(light, base[k]) * 3) \div 10)
                      ELSE fov.explored[k]]]

LightSeen(light, base, fov) ==
    [visible |-> [k \in DOMAIN fov.visible \cup DOMAIN base |->
                     IF k \in DOMAIN base
                     THEN Max(OrZero(fov.visible, k), FlickeredVisibility(light, base[k]))
                     ELSE fov.visible[k]],
     explored |-> [k \in DOMAIN fov.explored \cup DOMAIN base |->
                      IF k \in DOMAIN base
                      THEN Max(OrZero(fov.explored, k),
                               (FlickeredVisibility(light, base[k]) * 3) \div 10)
                      ELSE fov.explored[k]]]

computeLightSourceFOV(open, light, fov) ==
    LightSeen(light, LightBaseOf(open, <<light.x, light.y>>, light.radius), fov)

RECURSIVE LightPasses(_, _, _, _)
LightPasses(open, lights, i, fov) ==
    IF i > Len(lights) THEN fov
    ELSE LightPasses(open, lights, i + 1, computeLightSourceFOV(open, lights[i], fov))

PassesFrom(open, pl, lights, explored) ==
    LightPasses(open, lights, 1, PlayerPass(open, pl, explored))

\* computeFOV: [visible, explored] from the old exploredTiles.
computeFOV(m, npcList, pl, lights, explored) ==
    IF pl = NoPlayer THEN [visible |-> <<>>, explored |-> explored]
    ELSE PassesFrom(OpenCells(m, npcList), pl, lights, explored)

(***************************************************************************)
(* performAttack and modifyHealth                                          *)
(***************************************************************************)
\* Math.random() < 0.1
IsCritical(rCrit) == rCrit * 10 < UNIT

\* Variant in which a critical hit triples the damage.
AttackDamageTripling(range, rCrit, rDmg) ==
    LET base == RandIndex(rDmg, range[2] - range[1] + 1) + range[1]
    IN IF rCrit * 10 < UNIT THEN base * 3 ELSE base

\* The damage of an attack with range <<min, max>>; rCrit and rDmg are the
\* two rolls, in call order.
AttackDamage(range, rCrit, rDmg) ==
    LET base == RandIndex(rDmg, range[2] - range[1] + 1) + range[1]
    IN IF IsCritical(rCrit) THEN base * 2 ELSE base

\* performAttack: the damage returned and target.health afterwards.
performAttack(range, targetHealth, rCrit, rDmg) ==
    LET damage == AttackDamage(range, rCrit, rDmg)
    IN [damage |-> damage, health |-> Max(0, targetHealth - damage)]

\* Variant without the lower clamp.
modifyHealthUnclamped(health, maxH, amount) == Min(maxH, health + amount)

\* modifyHealth: the new currentHealth.
modifyHealth(health, maxH, amount) == Max(0, Min(maxH, health + amount))

playerDamage == <<5, 10>>

(***************************************************************************)
(* The session's state                                                     *)
(***************************************************************************)
VARIABLES
    map,            \* this.map: cell -> [type, feature]; <<>> before generation
    player,         \* this.player: <<x, y>>, or NoPlayer (null)
    npcs,           \* this.npcs: sequence of <<x, y>>
    monsters,       \* this.monsters: sequence of [x, y, type, health]
    currentHealth,  \* this.currentHealth
    maxHealth,      \* this.maxHealth
    currentLevel,   \* this.currentLevel
    isDead,         \* this.isDead
    isPaused,       \* this.isPaused
    visibleTiles,   \* this.visibleTiles: coordinate -> illumination
    exploredTiles,  \* this.exploredTiles: coordinate -> remembered illumination
    lightSources,   \* this.lightSources (animatedTiles holds the same firepits)
    pending,        \* the counter-attack timeouts not yet fired: monster types
    call            \* the function application a harness follows (NoCall in a session)

vars == <<map, player, npcs, monsters, currentHealth, maxHealth, currentLevel,
          isDead, isPaused, visibleTiles, exploredTiles, lightSources, pending, call>>

\* The state as a record, for the handlers below (functions from a state to
\* the set of states the handler can leave).
State ==
    [map |-> map, player |-> player, npcs |-> npcs, monsters |-> monsters,
     currentHealth |-> currentHealth, maxHealth |-> maxHealth,
     currentLevel |-> currentLevel, isDead |-> isDead, isPaused |-> isPaused,
     visibleTiles |-> visibleTiles, exploredTiles |-> exploredTiles,
     lightSources |-> lightSources, pending |-> pending]

Assign(t) ==
    /\ map' = t.map
    /\ player' = t.player
    /\ npcs' = t.npcs
    /\ monsters' = t.monsters
    /\ currentHealth' = t.currentHealth
    /\ maxHealth' = t.maxHealth
    /\ currentLevel' = t.currentLevel
    /\ isDead' = t.isDead
    /\ isPaused' = t.isPaused
    /\ visibleTiles' = t.visibleTiles
    /\ exploredTiles' = t.exploredTiles
    /\ lightSources' = t.lightSources
    /\ pending' = t.pending

\* A step of the session: the harness variable stays.
Become(t) == Assign(t) /\ call' = call

\* The player's health at the start of a session (scaled).
PLAYER_HEALTH == 6

\* The constructor.
Constructed ==
    [map |-> <<>>, player |-> NoPlayer, npcs |-> <<>>, monsters |-> <<>>,
     currentHealth |-> PLAYER_HEALTH, maxHealth |-> PLAYER_HEALTH,
     currentLevel |-> 1, isDead |-> FALSE, isPaused |-> FALSE,
     visibleTiles |-> <<>>, exploredTiles |-> <<>>,
     lightSources |-> <<>>, pending |-> <<>>]

(***************************************************************************)
(* Level setup: generateMap, placeCharacters, placeFirepits,               *)
(* placeMonsters, computeFOV (checkAllResourcesLoaded and goDownstairs).   *)
(* A choice ch fixes what the random source yields during the setup:       *)
(* ch.raw the automaton's floor cells, and the rolls in call order.        *)
(***************************************************************************)
SetFOV(s, fov) == [s EXCEPT !.visibleTiles = fov.visible, !.exploredTiles = fov.explored]

\* computeFOV on the state s.
WithFOV(s) ==
    SetFOV(s, computeFOV(s.map, s.npcs, s.player, s.lightSources, s.exploredTiles))

\* Variant that adds the firepit to the lights already there.
PlacedKeepingLights(s, p, ch) ==
    [s EXCEPT !.map = p.map, !.player = p.player, !.npcs = p.npcs,
              !.lightSources = s.lightSources \o placeFirepits(p.map, s.currentLevel, p.npcs,
                                                               s.monsters, ch.fire),
              !.monsters = p.monsters]

\* The state after the placements p; placeFirepits runs before placeMonsters
\* and still reads the previous level's monsters.
Placed(s, p, ch) ==
    [s EXCEPT !.map = p.map, !.player = p.player, !.npcs = p.npcs,
              !.lightSources = placeFirepits(p.map, s.currentLevel, p.npcs,
                                             s.monsters, ch.fire),
              !.monsters = p.monsters]

LevelSetup(s, ch) == WithFOV(Placed(s, PlacementOf(s.currentLevel, s.player, ch), ch))

(***************************************************************************)
(* checkAllResourcesLoaded                                                 *)
(***************************************************************************)
checkAllResourcesLoaded(s) == {LevelSetup(s, ch) : ch \in SetupChoices(s.currentLevel)}

(***************************************************************************)
(* goDownstairs and playerWon                                              *)
(***************************************************************************)
\* Variant that skips a depth.
goDownstairsSkipping(s) ==
    LET t == [s EXCEPT !.currentLevel = Min(MAX_LEVELS, s.currentLevel + 2)]
    IN {LevelSetup(t, ch) : ch \in SetupChoices(t.currentLevel)}

goDownstairs(s) ==
    LET t == [s EXCEPT !.currentLevel = s.currentLevel + 1]
    IN {LevelSetup(t, ch) : ch \in SetupChoices(t.currentLevel)}

playerWon(s) == [s EXCEPT !.isDead = TRUE]

(***************************************************************************)
(* processMovement (the keydown handler with the arrows held giving d)     *)
(***************************************************************************)
Directions == {d \in (-1 .. 1) \X (-1 .. 1) : d # <<0, 0>>}

\* this.monsters.find(m => m.x === x && m.y === y): its index, 0 when none.
FindMonster(mons, x, y) ==
    IF MonsterAt(mons, x, y)
    THEN CHOOSE i \in DOMAIN mons :
             /\ mons[i].x = x /\ mons[i].y = y
             /\ \A j \in DOMAIN mons : (mons[j].x = x /\ mons[j].y = y) => i <= j
    ELSE 0

RemoveAt(seq, i) == SubSeq(seq, 1, i - 1) \o SubSeq(seq, i + 1, Len(seq))

\* Variant that leaves a monster of health 0 in the collection.
PlayerAttackKeeping(s, i, rCrit, rDmg) ==
    LET health == performAttack(playerDamage, s.monsters[i].health, rCrit, rDmg).health
    IN IF health >= 0
       THEN [s EXCEPT !.monsters[i].health = health,
                      !.pending = Append(s.pending, s.monsters[i].type)]
       ELSE [s EXCEPT !.monsters = RemoveAt(s.monsters, i)]

\* Variant that schedules the counter-attack whether or not the monster
\* survives.
PlayerAttackAlwaysCountered(s, i, rCrit, rDmg) ==
    LET health == performAttack(playerDamage, s.monsters[i].health, rCrit, rDmg).health
    IN IF health > 0
       THEN [s EXCEPT !.monsters[i].health = health,
                      !.pending = Append(s.pending, s.monsters[i].type)]
       ELSE [s EXCEPT !.monsters = RemoveAt(s.monsters, i),
                      !.pending = Append(s.pending, s.monsters[i].type)]

\* Variant in which a monster that survives is pushed one tile away.
PlayerAttackPushing(s, i, rCrit, rDmg) ==
    LET health == performAttack(playerDamage, s.monsters[i].health, rCrit, rDmg).health
    IN IF health > 0
       THEN [s EXCEPT !.monsters[i].health = health,
                      !.monsters[i].x = 2 * s.monsters[i].x - s.player[1],
                      !.monsters[i].y = 2 * s.monsters[i].y - s.player[2],
                      !.pending = Append(s.pending, s.monsters[i].type)]
       ELSE [s EXCEPT !.monsters = RemoveAt(s.monsters, i)]

\* The combat branch: the player's attack on monsters[i], the counter-attack
\* scheduled when the monster survives, the monster removed when it does not.
PlayerAttack(s, i, rCrit, rDmg) ==
    LET health == performAttack(playerDamage, s.monsters[i].health, rCrit, rDmg).health
    IN IF health > 0
       THEN [s EXCEPT !.monsters[i].health = health,
                      !.pending = Append(s.pending, s.monsters[i].type)]
       ELSE [s EXCEPT !.monsters = RemoveAt(s.monsters, i)]

\* Variant that never looks for a monster at the destination.
processMovementThrough(s, d) ==
    IF s.player = NoPlayer \/ s.isDead \/ s.isPaused THEN {s}
    ELSE LET newX == s.player[1] + d[1]
             newY == s.player[2] + d[2]
         IN IF isValidMove(s.map, s.npcs, newX, newY)
            THEN IF s.map[<<newX, newY>>].feature = "stairsDown"
                 THEN goDownstairs(s)
                 ELSE IF s.map[<<newX, newY>>].feature = "door"
                         /\ s.currentLevel = MAX_LEVELS
                 THEN {playerWon(s)}
                 ELSE {WithFOV([s EXCEPT !.player = <<newX, newY>>])}
            ELSE {s}

\* Variant whose guard forgets the isDead flag.
processMovementWhileDead(s, d) ==
    IF s.player = NoPlayer \/ s.isPaused THEN {s}
    ELSE LET newX == s.player[1] + d[1]
             newY == s.player[2] + d[2]
             i == FindMonster(s.monsters, newX, newY)
         IN IF i # 0
            THEN {PlayerAttack(s, i, rCrit, rDmg) : rCrit \in Rolls, rDmg \in Rolls}
            ELSE IF isValidMove(s.map, s.npcs, newX, newY)
            THEN IF s.map[<<newX, newY>>].feature = "stairsDown"
                 THEN goDownstairs(s)
                 ELSE IF s.map[<<newX, newY>>].feature = "door"
                         /\ s.currentLevel = MAX_LEVELS
                 THEN {playerWon(s)}
                 ELSE {WithFOV([s EXCEPT !.player = <<newX, newY>>])}
            ELSE {s}

\* Variant that moves the player without recomputing the field of view.
processMovementBlind(s, d) ==
    IF s.player = NoPlayer \/ s.isDead \/ s.isPaused THEN {s}
    ELSE LET newX == s.player[1] + d[1]
             newY == s.player[2] + d[2]
             i == FindMonster(s.monsters, newX, newY)
         IN IF i # 0
            THEN {PlayerAttack(s, i, rCrit, rDmg) : rCrit \in Rolls, rDmg \in Rolls}
            ELSE IF isValidMove(s.map, s.npcs, newX, newY)
            THEN IF s.map[<<newX, newY>>].feature = "stairsDown"
                 THEN goDownstairs(s)
                 ELSE IF s.map[<<newX, newY>>].feature = "door"
                         /\ s.currentLevel = MAX_LEVELS
                 THEN {playerWon(s)}
                 ELSE {[s EXCEPT !.player = <<newX, newY>>]}
            ELSE {s}

\* Variant that lets the player walk onto any tile of the grid.
processMovementThroughWalls(s, d) ==
    IF s.player = NoPlayer \/ s.isDead \/ s.isPaused THEN {s}
    ELSE LET newX == s.player[1] + d[1]
             newY == s.player[2] + d[2]
             i == FindMonster(s.monsters, newX, newY)
         IN IF i # 0
            THEN {PlayerAttack(s, i, rCrit, rDmg) : rCrit \in Rolls, rDmg \in Rolls}
            ELSE IF InBounds(newX, newY)
            THEN IF s.map[<<newX, newY>>].feature = "stairsDown"
                 THEN goDownstairs(s)
                 ELSE IF s.map[<<newX, newY>>].feature = "door"
                         /\ s.currentLevel = MAX_LEVELS
                 THEN {playerWon(s)}
                 ELSE {WithFOV([s EXCEPT !.player = <<newX, newY>>])}
            ELSE {s}

\* Variant that lets the player walk onto a tile an NPC occupies.
processMovementPastNPCs(s, d) ==
    IF s.player = NoPlayer \/ s.isDead \/ s.isPaused THEN {s}
    ELSE LET newX == s.player[1] + d[1]
             newY == s.player[2] + d[2]
             i == FindMonster(s.monsters, newX, newY)
         IN IF i # 0
            THEN {PlayerAttack(s, i, rCrit, rDmg) : rCrit \in Rolls, rDmg \in Rolls}
            ELSE IF isValidMove(s.map, <<>>, newX, newY)
            THEN IF s.map[<<newX, newY>>].feature = "stairsDown"
                 THEN goDownstairs(s)
                 ELSE IF s.map[<<newX, newY>>].feature = "door"
                         /\ s.currentLevel = MAX_LEVELS
                 THEN {playerWon(s)}
                 ELSE {WithFOV([s EXCEPT !.player = <<newX, newY>>])}
            ELSE {s}

processMovement(s, d) ==
    IF s.player = NoPlayer \/ s.isDead \/ s.isPaused THEN {s}
    ELSE LET newX == s.player[1] + d[1]
             newY == s.player[2] + d[2]
             i == FindMonster(s.monsters, newX, newY)
         IN IF i # 0
            THEN {PlayerAttack(s, i, rCrit, rDmg) : rCrit \in Rolls, rDmg \in Rolls}
            ELSE IF isValidMove(s.map, s.npcs, newX, newY)
            THEN IF s.map[<<newX, newY>>].feature = "stairsDown"
                 THEN goDownstairs(s)
                 ELSE IF s.map[<<newX, newY>>].feature = "door"
                         /\ s.currentLevel = MAX_LEVELS
                 THEN {playerWon(s)}
                 ELSE {WithFOV([s EXCEPT !.player = <<newX, newY>>])}
            ELSE {s}

(***************************************************************************)
(* The deferred counter-attack (the setTimeout callback)                   *)
(***************************************************************************)
\* Variant without the death check.
DamagedAlive(s, h) == [s EXCEPT !.currentHealth = h]

\* performAttack on a copy of the player's health, then modifyHealth(-damage)
\* and playerDied when the health is 0.
Damaged(s, h) == [s EXCEPT !.currentHealth = h, !.isDead = IF h <= 0 THEN TRUE ELSE s.isDead]

AttackPlayer(s, mtype, rCrit, rDmg) ==
    Damaged(s, modifyHealth(s.currentHealth, s.maxHealth,
                            -performAttack(monsterStats[mtype].damage, s.currentHealth,
                                           rCrit, rDmg).damage))

counterAttack(s) ==
    IF s.pending = <<>> THEN {}
    ELSE {AttackPlayer([s EXCEPT !.pending = Tail(s.pending)], Head(s.pending), rCrit, rDmg) :
              rCrit \in Rolls, rDmg \in Rolls}

(***************************************************************************)
(* moveMonsters                                                            *)
(***************************************************************************)
MonsterDirections == << <<-1, 0>>, <<1, 0>>, <<0, -1>>, <<0, 1>> >>

Sign(a) == IF a > 0 THEN 1 ELSE IF a < 0 THEN -1 ELSE 0

\* Variant with a reach of two cells.
IsWithinTwo(monster, p) == Abs(monster.x - p[1]) <= 2 /\ Abs(monster.y - p[2]) <= 2

IsAdjacent(monster, p) == Abs(monster.x - p[1]) <= 1 /\ Abs(monster.y - p[2]) <= 1

\* Variant that steps along the axis with the larger offset.
MonsterDirectionLargerAxis(monster, p, r) ==
    LET distanceToPlayer == Abs(monster.x - p[1]) + Abs(monster.y - p[2])
        dx == Sign(p[1] - monster.x)
        dy == Sign(p[2] - monster.y)
        any == MonsterDirections[RandIndex(r[2], 4) + 1]
    IN IF distanceToPlayer < 5
       THEN IF Abs(monster.x - p[1]) > Abs(monster.y - p[2]) THEN <<dx, 0>>
            ELSE IF Abs(monster.x - p[1]) < Abs(monster.y - p[2]) THEN <<0, dy>>
            ELSE IF dx = 0 THEN any
            ELSE IF r[1] * 2 < UNIT THEN <<dx, 0>> ELSE <<0, dy>>
       ELSE any

\* The direction a monster picks; r[1] is the roll of the "< 0.5" test and
\* r[2] the roll of the random direction.
MonsterDirection(monster, p, r) ==
    LET distanceToPlayer == Abs(monster.x - p[1]) + Abs(monster.y - p[2])
        dx == Sign(p[1] - monster.x)
        dy == Sign(p[2] - monster.y)
        any == MonsterDirections[RandIndex(r[2], 4) + 1]
    IN IF distanceToPlayer < 5
       THEN LET direction == IF r[1] * 2 < UNIT /\ dx # 0 THEN <<dx, 0>> ELSE <<0, dy>>
            IN IF direction = <<0, 0>> THEN any ELSE direction
       ELSE any

\* The forEach body for monsters[i] once its direction is picked.  Variant in
\* which the monster moves without asking isValidMove.
MonsterStepUnchecked(s, i, direction, rCrit, rDmg) ==
    LET newX == s.monsters[i].x + direction[1]
        newY == s.monsters[i].y + direction[2]
    IN IF IsAdjacent(s.monsters[i], s.player)
       THEN AttackPlayer(s, s.monsters[i].type, rCrit, rDmg)
       ELSE IF /\ InBounds(newX, newY)
               /\ ~(s.player[1] = newX /\ s.player[2] = newY)
               /\ ~MonsterAt(s.monsters, newX, newY)
       THEN [s EXCEPT !.monsters[i].x = newX, !.monsters[i].y = newY]
       ELSE s

\* Variant in which the monster does not look for other monsters.
MonsterStepCrowding(s, i, direction, rCrit, rDmg) ==
    LET newX == s.monsters[i].x + direction[1]
        newY == s.monsters[i].y + direction[2]
    IN IF IsAdjacent(s.monsters[i], s.player)
       THEN AttackPlayer(s, s.monsters[i].type, rCrit, rDmg)
       ELSE IF /\ isValidMove(s.map, s.npcs, newX, newY)
               /\ ~(s.player[1] = newX /\ s.player[2] = newY)
               /\ ~NpcAt(s.npcs, newX, newY)
       THEN [s EXCEPT !.monsters[i].x = newX, !.monsters[i].y = newY]
       ELSE s

MonsterStep(s, i, direction, rCrit, rDmg) ==
    LET newX == s.monsters[i].x + direction[1]
        newY == s.monsters[i].y + direction[2]
    IN IF IsAdjacent(s.monsters[i], s.player)
       THEN AttackPlayer(s, s.monsters[i].type, rCrit, rDmg)
       ELSE IF /\ isValidMove(s.map, s.npcs, newX, newY)
               /\ ~(s.player[1] = newX /\ s.player[2] = newY)
               /\ ~NpcAt(s.npcs, newX, newY)
               /\ ~MonsterAt(s.monsters, newX, newY)
       THEN [s EXCEPT !.monsters[i].x = newX, !.monsters[i].y = newY]
       ELSE s

\* The forEach body for monsters[i]; r = <<half roll, direction roll, critical
\* roll, damage roll>>.
MonsterTurn(s, i, r) ==
    MonsterStep(s, i, MonsterDirection(s.monsters[i], s.player, r), r[3], r[4])

\* The rolls that decide a monster's turn: those of the attack when it is
\* adjacent to the player, those of the direction otherwise.
TurnRolls(s, i) ==
    IF IsAdjacent(s.monsters[i], s.player)
    THEN {<<0, 0, rCrit, rDmg>> : rCrit \in Rolls, rDmg \in Rolls}
    ELSE {<<rHalf, rDir, 0, 0>> : rHalf \in Rolls, rDir \in IndexRolls(4)}

RECURSIVE MonstersFrom(_, _)
MonstersFrom(s, i) ==
    IF i > Len(s.monsters) THEN {s}
    ELSE UNION {MonstersFrom(MonsterTurn(s, i, r), i + 1) : r \in TurnRolls(s, i)}

moveMonsters(s) == IF s.player = NoPlayer THEN {s} ELSE MonstersFrom(s, 1)

(***************************************************************************)
(* animationLoop and updateLightFlicker                                    *)
(***************************************************************************)
\* light.baseIntensity * (0.9 + Math.random() * 0.2)
FlickerIntensity(light, r) ==
    (light.baseIntensity * ((9 * UNIT) \div 10 + (r * 2) \div 10)) \div UNIT

\* updateLightFlicker with the rolls fr (one per light): the new lights and
\* the field of view recomputed with them.
updateLightFlicker(s, fr) ==
    WithFOV([s EXCEPT !.lightSources =
                [i \in DOMAIN s.lightSources |->
                    [s.lightSources[i] EXCEPT
                        !.currentIntensity = FlickerIntensity(s.lightSources[i], fr[i])]]])

\* The lights and the field of view updateLightFlicker leaves, for every
\* outcome of the rolls.
Flickers(s) == {updateLightFlicker(s, fr) : fr \in [DOMAIN s.lightSources -> Rolls]}

\* The monsters' tick of a frame, when it is due.
Ticked(s, moves) == IF moves THEN moveMonsters(s) ELSE {s}

\* updateLightFlicker after the tick: the monsters do not enter the field of
\* view computation, so it is computed from the state before the tick.
Redrawn(after, lit) ==
    {[t EXCEPT !.lightSources = l.lightSources,
               !.visibleTiles = l.visibleTiles,
               !.exploredTiles = l.exploredTiles] : t \in after, l \in lit}

FrameOf(s, moves) ==
    IF (Len(s.lightSources) > 0 \/ moves) /\ s.player # NoPlayer
    THEN Redrawn(Ticked(s, moves), Flickers(s))
    ELSE Ticked(s, moves)

\* Variant that runs the frame whether or not the game is paused.
animationLoopUnpaused(s, due) == FrameOf(s, s.player # NoPlayer /\ ~s.isDead /\ due)

\* One animation frame; whether the monsters' interval has elapsed is `due`.
animationLoop(s, due) ==
    IF s.isPaused THEN {s}
    ELSE FrameOf(s, s.player # NoPlayer /\ ~s.isDead /\ due)

(***************************************************************************)
(* togglePause                                                             *)
(***************************************************************************)
togglePause(s) == [s EXCEPT !.isPaused = ~s.isPaused]

(***************************************************************************)
(* The session: events in any order                                        *)
(***************************************************************************)
\* The counter-attack timeouts in flight that the model follows.
MAX_PENDING == 1

Is(t) ==
    /\ map = t.map
    /\ player = t.player
    /\ npcs = t.npcs
    /\ monsters = t.monsters
    /\ currentHealth = t.currentHealth
    /\ maxHealth = t.maxHealth
    /\ currentLevel = t.currentLevel
    /\ isDead = t.isDead
    /\ isPaused = t.isPaused
    /\ visibleTiles = t.visibleTiles
    /\ exploredTiles = t.exploredTiles
    /\ lightSources = t.lightSources
    /\ pending = t.pending

NoCall == <<>>

Init == Is(Constructed) /\ call = NoCall

ResourcesLoaded ==
    /\ player = NoPlayer
    /\ \E t \in checkAllResourcesLoaded(State) : Become(t)

KeyDown ==
    \E d \in Directions :
        \E t \in processMovement(State, d) :
            Len(t.pending) <= MAX_PENDING /\ Become(t)

Frame == \E due \in BOOLEAN : \E t \in animationLoop(State, due) : Become(t)

Timeout == \E t \in counterAttack(State) : Become(t)

PauseKey == \E t \in {togglePause(State)} : Become(t)

Next == ResourcesLoaded \/ KeyDown \/ Frame \/ Timeout \/ PauseKey

Spec == Init /\ [][Next]_vars

(***************************************************************************)
(* The level setup as a function of the depth and of what the random       *)
(* source yields: caves with one or several regions, every roll.           *)
(***************************************************************************)
\* The tiles a cave may lack: a column left of the centre and the top of
\* the centre column, six tiles in all; without the whole column the cave
\* falls into two regions.
WINDOW == 6

WallWindow(level) ==
    {c \in EffectiveArea(level) :
        \/ c[1] = CenterX - 1
        \/ c[1] = CenterX /\ c[2] < MarginY(level) + WINDOW - EffectiveHeight(level)}

SetupDraws(level) ==
    {[raw |-> OpenCave(level) \ W] @@ SetupRolls(rStairs, rNpc, 0, <<UNIT - 1, 0>>) :
        W \in SUBSET WallWindow(level), rStairs \in Rolls, rNpc \in Rolls}

InitSetup ==
    /\ \E level \in 1 .. MAX_LEVELS : Is([Constructed EXCEPT !.currentLevel = level])
    /\ call = NoCall

\* generateMap, placeCharacters, placeFirepits, placeMonsters and computeFOV
\* for one draw, which `call` keeps.
SetupLevel ==
    /\ call = NoCall
    /\ \E ch \in SetupDraws(currentLevel) :
           /\ HasRegion(currentLevel, ch.raw)
           /\ Assign(LevelSetup(State, ch))
           /\ call' = ch

SpecSetup == InitSetup /\ [][SetupLevel]_vars

FloorCells(m) == {c \in DOMAIN m : ~isWallTile(m[c].type)}

\* The cells of F reachable from S through orthogonally adjacent cells of F.
RECURSIVE Reach4(_, _)
Reach4(F, S) ==
    LET N == S \cup {c \in F : \E d \in S : Abs(c[1] - d[1]) + Abs(c[2] - d[2]) = 1}
    IN IF N = S THEN S ELSE Reach4(F, N)

Connected4(F) == F = {} \/ Reach4(F, {CHOOSE c \in F : TRUE}) = F

\* C1: after generateMap, at every depth, the floor tiles of the grid form a
\* single 4-connected region: every floor tile is reachable from every other
\* one through orthogonally adjacent floor tiles.
C1_Connectivity == map # <<>> => Connected4(FloorCells(map))

\* A grid generated from a cave of several regions, all but one pruned.
C1_Witness ==
    /\ call # NoCall
    /\ Len(findConnectedRegions(TempFloor(currentLevel, call.raw))) >= 2
    /\ Cardinality(FloorCells(map)) >= 2
    /\ FloorCells(map) # TempFloor(currentLevel, call.raw)

ExitTiles(m) == {c \in DOMAIN m : m[c].feature \in {"stairsDown", "door"}}

\* The cells the player can reach from S by moves (the eight directions)
\* whose destinations satisfy isValidMove.
RECURSIVE ReachByMoves(_, _)
ReachByMoves(open, S) ==
    LET N == S \cup {c \in open : \E d \in S : Chebyshev(c, d) = 1}
    IN IF N = S THEN S ELSE ReachByMoves(open, N)

\* C2: after a complete level setup the stairs tile (the victory door on the
\* last depth) is reachable from the player's spawn position by moves whose
\* destinations all satisfy isValidMove, the NPCs blocking.
C2_StairsReachable ==
    (map # <<>> /\ player # NoPlayer) =>
        FindStairs(map, currentLevel) \in ReachByMoves(ValidCells(map, npcs), {player})

C27_NPCsGrowWithDepth ==
    (/\ call # NoCall
     /\ currentLevel > 1
     /\ Cardinality(ValidCells(map, <<>>) \ {player}) >= NumNPCs(currentLevel - 1))
        => Len(npcs) >= NumNPCs(currentLevel - 1)

\* The regions found before pruning, for the draw the setup kept.
RegionsBefore == findConnectedRegions(TempFloor(currentLevel, call.raw))

IsLargestOf(regions, R) ==
    \E i \in DOMAIN regions :
        /\ R = SeqToSet(regions[i])
        /\ \A j \in DOMAIN regions : Len(regions[j]) <= Len(regions[i])

\* C29: the pruning step of generateMap keeps as floor exactly the cells of
\* one region of maximal size among the regions found before pruning, turns
\* every other floor cell into wall and no wall cell into floor.
C29_PruningKeepsLargest ==
    call # NoCall =>
        /\ IsLargestOf(RegionsBefore, FloorCells(map))
        /\ \A c \in TempFloor(currentLevel, call.raw) \ FloorCells(map) :
               map[c] = WallTile(currentLevel)
        /\ FloorCells(map) \subseteq TempFloor(currentLevel, call.raw)

\* A cave of two regions with the smaller one found first: the later, larger
\* one is kept.
C29_Witness ==
    /\ call # NoCall
    /\ Len(RegionsBefore) >= 2
    /\ Len(RegionsBefore[1]) < Cardinality(FloorCells(map))
    /\ SeqToSet(RegionsBefore[1]) \cap FloorCells(map) = {}

(***************************************************************************)
(* Properties of the session                                               *)
(***************************************************************************)
Positions(seq) == {<<seq[i].x, seq[i].y>> : i \in DOMAIN seq}

C6_ExploredMonotone ==
    [][currentLevel' = currentLevel =>
          \A k \in DOMAIN exploredTiles :
              /\ k \in DOMAIN exploredTiles'
              /\ exploredTiles'[k] >= exploredTiles[k]]_vars

\* A tile remembered brighter than the light now makes it (the remembered
\* value is 0.3 of the illumination), and a tile remembered but not visible.
C6_Witness ==
    /\ \E k \in DOMAIN exploredTiles \cap DOMAIN visibleTiles :
           exploredTiles[k] * 10 > visibleTiles[k] * 3 + 10
    /\ \E k \in DOMAIN exploredTiles : k \notin DOMAIN visibleTiles

\* C7: on a depth transition the explored map is cleared: afterwards it holds
\* only the entries the visibility computation on the new depth produces.
C7_ExploredCleared ==
    [][currentLevel' # currentLevel =>
          exploredTiles' =
              computeFOV(map', npcs', player', lightSources', <<>>).explored]_vars

\* The directions of a move onto a passable stairsDown tile without a monster,
\* when the game takes input.
StairsMoves ==
    IF player = NoPlayer \/ isDead \/ isPaused THEN {}
    ELSE {d \in Directions :
             LET x == player[1] + d[1]
                 y == player[2] + d[2]
             IN /\ isValidMove(map, npcs, x, y)
                /\ map[<<x, y>>].feature = "stairsDown"
                /\ ~MonsterAt(monsters, x, y)}

IsState(t) ==
    /\ map' = t.map /\ player' = t.player /\ npcs' = t.npcs /\ monsters' = t.monsters
    /\ currentHealth' = t.currentHealth /\ maxHealth' = t.maxHealth
    /\ currentLevel' = t.currentLevel /\ isDead' = t.isDead /\ isPaused' = t.isPaused
    /\ visibleTiles' = t.visibleTiles /\ exploredTiles' = t.exploredTiles
    /\ lightSources' = t.lightSources /\ pending' = t.pending

\* C8: a move onto a passable stairsDown tile without a monster increments
\* currentLevel by exactly 1 and regenerates the level; no other input, tick
\* or timer event changes currentLevel.
C8_LevelByStairs ==
    [][/\ \A d \in StairsMoves : \A t \in processMovement(State, d) :
              /\ t.currentLevel = currentLevel + 1
              /\ \E ch \in SetupChoices(currentLevel + 1) :
                     t.map = generateMap(currentLevel + 1, ch.raw, ch.tile, ch.stairs)
       /\ currentLevel' # currentLevel =>
              /\ currentLevel' = currentLevel + 1
              /\ \E d \in StairsMoves : \E t \in processMovement(State, d) : IsState(t)]_vars

\* A depth below the first, reached by the stairs, with the next stairs one
\* move away.
C8_Witness == currentLevel >= 2 /\ StairsMoves # {}

\* C9: a monster whose health a player attack brings to 0 is removed within
\* that input step, so every monster of the collection has health > 0 between
\* events; afterwards isValidMove holds at its former coordinate when the tile
\* is floor without a blocking feature and no NPC stands on it.
C9_DeadMonsterRemoved ==
    [][/\ \A i \in DOMAIN monsters' : monsters'[i].health > 0
       /\ \A i \in DOMAIN monsters :
              (currentLevel' = currentLevel /\ monsters' = RemoveAt(monsters, i)) =>
                  LET x == monsters[i].x
                      y == monsters[i].y
                  IN (/\ ~isWallTile(map[<<x, y>>].type)
                      /\ map[<<x, y>>].feature \notin ImpassableFeatures
                      /\ ~NpcAt(npcs, x, y))
                         => isValidMove(map', npcs', x, y)]_vars

\* The first depth (set up with a monster) after the monster was killed, the
\* player standing where a monster could.
C9_Witness ==
    /\ currentLevel = 1 /\ player # NoPlayer /\ monsters = <<>>
    /\ ~isDead

\* The directions of an input that targets a tile holding a monster, when the
\* game takes input.
MonsterMoves ==
    IF player = NoPlayer \/ isDead \/ isPaused THEN {}
    ELSE {d \in Directions : MonsterAt(monsters, player[1] + d[1], player[2] + d[2])}

\* The monsters after a hit of `damage` on monsters[i].
MonstersAfterHit(mons, i, damage) ==
    IF mons[i].health > damage
    THEN [mons EXCEPT ![i].health = @ - damage]
    ELSE RemoveAt(mons, i)

\* C11: a directional input that targets a tile occupied by a live monster
\* leaves the player's position unchanged, triggers no depth transition and
\* no victory whatever the tile carries, and resolves the player's attack on
\* that monster (a damage within the player's range, doubled at most).
C11_CombatInsteadOfMove ==
    \A d \in MonsterMoves : \A t \in processMovement(State, d) :
        /\ t.player = player
        /\ t.currentLevel = currentLevel /\ t.map = map /\ t.isDead = isDead
        /\ \E damage \in playerDamage[1] .. 2 * playerDamage[2] :
               t.monsters = MonstersAfterHit(monsters,
                                FindMonster(monsters, player[1] + d[1], player[2] + d[2]),
                                damage)

\* A wounded monster standing on the stairs or the victory door, one input
\* away from the player, its counter-attack in flight.
C11_Witness ==
    /\ pending # <<>>
    /\ \E d \in MonsterMoves :
           LET i == FindMonster(monsters, player[1] + d[1], player[2] + d[2])
           IN /\ monsters[i].health < monsterStats[monsters[i].type].health
              /\ IsExitTile(map, currentLevel, <<monsters[i].x, monsters[i].y>>)

\* C12: in player-initiated combat the player's attack is applied to the
\* monster within the input step, in which the player's health does not
\* change (the counter-attack comes later, from its timeout); a
\* counter-attack of that monster is scheduled if and only if the monster's
\* health is above 0 after the attack, and an attack that kills the monster
\* schedules none.
C12_AttackThenCounter ==
    \A d \in MonsterMoves : \A t \in processMovement(State, d) :
        LET i == FindMonster(monsters, player[1] + d[1], player[2] + d[2])
            survives == /\ Len(t.monsters) = Len(monsters)
                        /\ t.monsters[i].health > 0
        IN /\ t.currentHealth = currentHealth
           /\ t.monsters # monsters
           /\ survives => /\ t.monsters[i].health < monsters[i].health
                          /\ t.pending = Append(pending, monsters[i].type)
           /\ ~survives => /\ t.monsters = RemoveAt(monsters, i)
                           /\ t.pending = pending

\* After a fight on the first depth: the monster hit back once it had
\* survived an attack, a later attack killed it, and no counter-attack is
\* scheduled.
C12_Witness ==
    /\ currentLevel = 1 /\ player # NoPlayer /\ ~isDead
    /\ monsters = <<>> /\ pending = <<>>
    /\ currentHealth < maxHealth

\* C13: a deferred counter-attack still pending when a depth transition
\* happens or when the player dies is cancelled: fired after the transition
\* it leaves the player's health as it is, and once the player's health is 0
\* no event changes it.
C13_StaleCounterCancelled ==
    [][/\ currentLevel' # currentLevel =>
              \A t \in counterAttack(State') : t.currentHealth = currentHealth'
       /\ currentHealth <= 0 => currentHealth' = currentHealth]_vars

\* C14: once the session is Dead (the player's health reached 0) or
\* Victorious (the victory door entered), both recorded in isDead, it stays
\* so, and every directional input leaves the player's position, the
\* monsters, the depth and the grid unchanged.
C14_TerminalNoInput ==
    [][/\ currentHealth' <= 0 => isDead'
       /\ isDead =>
              /\ isDead'
              /\ \A d \in Directions : \A t \in processMovement(State, d) :
                     /\ t.player = player /\ t.monsters = monsters
                     /\ t.currentLevel = currentLevel /\ t.map = map]_vars

\* The Victorious session: the flag set on the last depth with the player
\* alive, next to the door it entered.
C14_Witness ==
    /\ isDead /\ currentHealth > 0 /\ currentLevel = MAX_LEVELS
    /\ \E d \in Directions :
           /\ InBounds(player[1] + d[1], player[2] + d[2])
           /\ map[<<player[1] + d[1], player[2] + d[2]>>].feature = "door"

\* C15: while the game is paused an animation frame, with or without the
\* monsters' tick due, changes nothing (no monster moves or attacks, no light
\* intensity is updated) and every directional input leaves the state as it
\* is; toggling pause again resumes both: the frame flickers the lights and
\* an input towards a passable tile or a monster is acted upon.
C15_PauseSuspends ==
    isPaused =>
        /\ \A due \in BOOLEAN : animationLoop(State, due) = {State}
        /\ \A d \in Directions : processMovement(State, d) = {State}
        /\ LET resumed == togglePause(State)
           IN /\ resumed = [State EXCEPT !.isPaused = FALSE]
              /\ (player # NoPlayer /\ lightSources # <<>>) =>
                     \A due \in BOOLEAN :
                         \E t \in animationLoop(resumed, due) : t # resumed
              /\ (player # NoPlayer /\ ~isDead) =>
                     \A d \in Directions :
                         (\/ isValidMove(map, npcs, player[1] + d[1], player[2] + d[2])
                          \/ MonsterAt(monsters, player[1] + d[1], player[2] + d[2]))
                             => resumed \notin processMovement(resumed, d)

\* The game paused with the player alive, a firepit burning and a monster
\* next to the player.
C15_Witness ==
    /\ isPaused /\ player # NoPlayer /\ ~isDead
    /\ lightSources # <<>>
    /\ \E i \in DOMAIN monsters : IsAdjacent(monsters[i], player)

\* The damage a monster of type mtype can deal in one attack.
MonsterDamages(mtype) == monsterStats[mtype].damage[1] .. 2 * monsterStats[mtype].damage[2]

\* C17: during a tick, a monster whose Chebyshev distance to the player is at
\* most 1 when it is processed attacks the player once (the player's health
\* drops by one damage of the monster's range, not below 0) and keeps its
\* position; a monster at Chebyshev distance greater than 1 deals no damage.
C17_AdjacentAttacks ==
    player # NoPlayer =>
        \A i \in DOMAIN monsters : \A r \in TurnRolls(State, i) :
            LET t == MonsterTurn(State, i, r)
                distance == Max(Abs(monsters[i].x - player[1]),
                                Abs(monsters[i].y - player[2]))
            IN IF distance <= 1
               THEN /\ t.monsters = monsters
                    /\ \E damage \in MonsterDamages(monsters[i].type) :
                           t.currentHealth = Max(0, currentHealth - damage)
               ELSE /\ t.currentHealth = currentHealth
                    /\ t.isDead = isDead

\* A monster the player never hit stands next to the wounded player: the
\* damage came from the monster's tick.
C17_Witness ==
    /\ player # NoPlayer /\ pending = <<>>
    /\ currentHealth > 0 /\ currentHealth < maxHealth
    /\ \E i \in DOMAIN monsters :
           /\ IsAdjacent(monsters[i], player)
           /\ monsters[i].health = monsterStats[monsters[i].type].health

\* The directions of an input whose destination is passable and holds no
\* monster, when the game takes input.
FreeMoves ==
    IF player = NoPlayer \/ isDead \/ isPaused THEN {}
    ELSE {d \in Directions :
             /\ isValidMove(map, npcs, player[1] + d[1], player[2] + d[2])
             /\ ~MonsterAt(monsters, player[1] + d[1], player[2] + d[2])}

\* The session has just become Victorious in t: the flag set, the player alive.
Won(t) == t.isDead /\ ~isDead /\ t.currentHealth > 0

\* C19: for a directional input whose destination is passable and holds no
\* monster: if the tile has the stairsDown feature a depth transition
\* happens; else if it has the door feature and the depth is MAX_LEVELS the
\* session becomes Victorious (the flag set, nothing else changed); otherwise
\* the player's position becomes the destination and the visible map is the
\* one computed from the new position.  Victory is reached in no other way:
\* by no other input, no frame, no counter-attack, no pause key.
C19_MoveResolution ==
    /\ \A d \in FreeMoves : \A t \in processMovement(State, d) :
           LET dest == <<player[1] + d[1], player[2] + d[2]>>
           IN IF map[dest].feature = "stairsDown"
              THEN t.currentLevel = currentLevel + 1 /\ ~t.isDead
              ELSE IF map[dest].feature = "door" /\ currentLevel = MAX_LEVELS
              THEN t = [State EXCEPT !.isDead = TRUE]
              ELSE /\ t.player = dest
                   /\ t.currentLevel = currentLevel /\ t.map = map /\ ~t.isDead
                   /\ t.visibleTiles =
                          computeFOV(map, npcs, dest, lightSources, exploredTiles).visible
    /\ \A d \in Directions : \A t \in processMovement(State, d) :
           Won(t) => /\ d \in FreeMoves
                     /\ map[<<player[1] + d[1], player[2] + d[2]>>].feature = "door"
                     /\ currentLevel = MAX_LEVELS
    /\ \A due \in BOOLEAN : \A t \in animationLoop(State, due) : ~Won(t)
    /\ \A t \in counterAttack(State) \cup {togglePause(State)} : ~Won(t)
    /\ player = NoPlayer => \A t \in checkAllResourcesLoaded(State) : ~Won(t)

\* On the last depth, reached by the stairs, the player has walked away from
\* where it was placed and stands one move from the victory door.
C19_Witness ==
    /\ currentLevel = MAX_LEVELS /\ ~isDead
    /\ \E d \in FreeMoves : map[<<player[1] + d[1], player[2] + d[2]>>].feature = "door"
    /\ \E k \in DOMAIN exploredTiles : k \notin DOMAIN visibleTiles

\* The player's illumination of the coordinates it sees.
PlayerGlow == PlayerVisibleOf(OpenCells(map, npcs), player)

\* For each light source, its illumination of the coordinates it reaches.
LightGlows ==
    [i \in DOMAIN lightSources |->
        LET base == LightBaseOf(OpenCells(map, npcs),
                                <<lightSources[i].x, lightSources[i].y>>,
                                lightSources[i].radius)
        IN [k \in DOMAIN base |-> FlickeredVisibility(lightSources[i], base[k])]]

\* The illuminations of the coordinate k, pg by the player and lg by the
\* light sources, by those that reach it.
Glows(k, pg, lg) ==
    {pg[j] : j \in {k} \cap DOMAIN pg}
        \cup {lg[i][k] : i \in {j \in DOMAIN lg : k \in DOMAIN lg[j]}}

\* visible holds, for the coordinates pg or lg reach and no other, the
\* largest of their illuminations.
IsMaxOf(visible, pg, lg) ==
    /\ DOMAIN visible = DOMAIN pg \cup UNION {DOMAIN lg[i] : i \in DOMAIN lg}
    /\ \A k \in DOMAIN visible :
           /\ visible[k] \in Glows(k, pg, lg)
           /\ \A g \in Glows(k, pg, lg) : g <= visible[k]

\* C20: after every computeFOV (every handler that changes the grid, the
\* player's position or the lights ends with one), for each coordinate k the
\* value visible[k] is the maximum of the player's illumination of k and of
\* the illumination of k by each light source that reaches it, never their
\* sum; the coordinates reached by neither are undefined in visible.
C20_VisibleIsMax == player # NoPlayer => IsMaxOf(visibleTiles, PlayerGlow, LightGlows)

\* Whether visible holds a coordinate that pg and a light of lg both
\* illuminate, the light more than the player, and one that only pg does.
LitByBoth(visible, pg, lg) ==
    /\ \E k \in DOMAIN pg : \E i \in DOMAIN lg :
           /\ k \in DOMAIN lg[i]
           /\ pg[k] > 0 /\ lg[i][k] > pg[k]
           /\ visible[k] = lg[i][k]
    /\ \E k \in DOMAIN pg : \A i \in DOMAIN lg : k \notin DOMAIN lg[i]

\* A coordinate that the player and a firepit both illuminate, the firepit
\* more than the player, and one that only the player illuminates.
C20_Witness == player # NoPlayer /\ LitByBoth(visibleTiles, PlayerGlow, LightGlows)

\* C21: in every state every coordinate defined in visible is defined in
\* explored, and explored[k] is at most the largest value visible[k] has
\* taken so far: explored starts empty and no step raises explored[k] above
\* both its former value and the value visible[k] has after the step.
C21_ExploredBelowSeen ==
    [][/\ DOMAIN visibleTiles' \subseteq DOMAIN exploredTiles'
       /\ \A k \in DOMAIN exploredTiles' :
              exploredTiles'[k] <= Max(OrZero(exploredTiles, k), OrZero(visibleTiles', k))]_vars

\* A visible tile remembered brighter than it is lit now (the memory comes
\* from an earlier, brighter computation), and a visible tile remembered
\* dimmer than it is lit.
C21_Witness ==
    /\ \E k \in DOMAIN visibleTiles : exploredTiles[k] > visibleTiles[k]
    /\ \E k \in DOMAIN visibleTiles :
           exploredTiles[k] > 0 /\ exploredTiles[k] < visibleTiles[k]

\* C22: every value stored in the visible map and in the explored map lies
\* in the range [0, 1], for every player position, every light source and
\* every flicker intensity a tick produces.
C22_UnitRange ==
    /\ \A k \in DOMAIN visibleTiles : 0 <= visibleTiles[k] /\ visibleTiles[k] <= UNIT
    /\ \A k \in DOMAIN exploredTiles : 0 <= exploredTiles[k] /\ exploredTiles[k] <= UNIT

\* C23: every tile that has been inside the player's field of view on the
\* current depth has an explored value strictly greater than 0; in
\* particular every tile inside it now has one.
C23_SeenStaysDimmed ==
    player # NoPlayer =>
        \A k \in DOMAIN PlayerGlow :
            k \in DOMAIN exploredTiles /\ exploredTiles[k] > 0

\* The lights as placeFirepits leaves them: at most one, unflickered, on a
\* tile isValidMove accepts, within two cells of the level's exit and not on it.
LightsPlaced ==
    /\ Len(lightSources) <= 1
    /\ \A i \in DOMAIN lightSources :
           /\ lightSources[i] = FirepitAt(<<lightSources[i].x, lightSources[i].y>>)
           /\ isValidMove(map, npcs, lightSources[i].x, lightSources[i].y)
           /\ ExitTiles(map) # {}
           /\ \A e \in ExitTiles(map) :
                  /\ Chebyshev(<<lightSources[i].x, lightSources[i].y>>, e) <= 2
                  /\ <<lightSources[i].x, lightSources[i].y>> # e

C32_HealthInRange ==
    /\ 0 <= currentHealth
    /\ currentHealth <= maxHealth
    /\ currentHealth = 0 => isDead

\* The player has been brought to 0 by a monster and is dead.
C32_Witness == currentHealth = 0 /\ isDead /\ player # NoPlayer

Places(mons) == [i \in DOMAIN mons |-> <<mons[i].x, mons[i].y>>]

\* The monsters of `after` are those of `before`, one at most removed, each
\* where it stood.
WhereTheyStood(before, after) ==
    \/ Places(after) = Places(before)
    \/ \E i \in DOMAIN before : Places(after) = Places(RemoveAt(before, i))

\* C33: monster movement and monster attacks come with the periodic tick
\* only: a directional input, whether it moves the player, is blocked or
\* starts combat, changes neither the position of any monster nor the
\* player's health; the monsters are replaced only by those of the next depth
\* when the input takes the stairs.
C33_InputMovesNoMonster ==
    \A d \in Directions : \A t \in processMovement(State, d) :
        /\ t.currentHealth = currentHealth
        /\ IF t.map = map
           THEN WhereTheyStood(monsters, t.monsters)
           ELSE /\ d \in FreeMoves
                /\ map[<<player[1] + d[1], player[2] + d[2]>>].feature = "stairsDown"
                /\ \A i \in DOMAIN t.monsters :
                       t.monsters[i].health = monsterStats[t.monsters[i].type].health

\* The player beside a monster and a wall with a free tile to step on: an
\* input can start combat, be blocked, or move the player.
C33_Witness ==
    /\ MonsterMoves # {}
    /\ \E d \in FreeMoves : map[<<player[1] + d[1], player[2] + d[2]>>].feature = "none"
    /\ \E d \in Directions : ~isValidMove(map, npcs, player[1] + d[1], player[2] + d[2])

\* C34: player death is declared at most once per session: once the player's
\* health has reached 0, no later event attacks the player or invokes
\* playerDied again.
C34_DeathDeclaredOnce == currentHealth = 0 => counterAttack(State) = {}

\* C35: a monster that has been killed and removed never reduces the player's
\* health afterwards: a counter-attack still pending when the player's attack
\* kills the monster leaves the health as it is when it fires.  (On the first
\* depth every pending counter-attack is the one of the depth's only monster.)
C35_KilledMonsterHarmless ==
    [][(/\ currentLevel = 1 /\ currentLevel' = 1
        /\ Len(monsters') < Len(monsters))
           => \A t \in counterAttack(State') : t.currentHealth = currentHealth']_vars

\* C36: while the game is paused the player's health does not change: no
\* event that fires during a pause (frame, input, counter-attack timer)
\* reduces currentHealth or makes the session dead.
C36_PausedHealthFrozen ==
    [][isPaused => (currentHealth' = currentHealth /\ isDead' = isDead)]_vars

\* The victory door has been entered: the flag playerWon sets, the player alive.
Victorious == isDead /\ currentHealth > 0

\* C37: the Victorious state is final: after the player has won, the
\* player's health never changes and the player is never declared dead.
C37_VictoryFinal == [][Victorious => currentHealth' = currentHealth]_vars

IsOpenFloor(m, c) ==
    /\ c \in Cells
    /\ ~isWallTile(m[c].type)
    /\ m[c].feature \notin ImpassableFeatures

\* C39: in every state after level setup, the player, every NPC and every
\* monster stand on a tile inside the grid that is a floor tile of the current
\* grid without a tree or smallTree feature, also right after a depth
\* transition.
C39_EntitiesOnFloor ==
    player # NoPlayer =>
        /\ IsOpenFloor(map, player)
        /\ \A i \in DOMAIN npcs : IsOpenFloor(map, npcs[i])
        /\ \A i \in DOMAIN monsters : IsOpenFloor(map, <<monsters[i].x, monsters[i].y>>)

\* The player away from the spawn tile, beside a wall, with NPCs and a
\* monster on the level.
C39_Witness ==
    /\ player # NoPlayer /\ player # PlayerSpawn(map)
    /\ npcs # <<>> /\ monsters # <<>>
    /\ \E d \in Directions :
           /\ InBounds(player[1] + d[1], player[2] + d[2])
           /\ isWallTile(map[<<player[1] + d[1], player[2] + d[2]>>].type)

\* A deeper level just set up: the player on its spawn tile among the NPCs.
C39_AfterTransition ==
    /\ currentLevel >= 2 /\ player = PlayerSpawn(map) /\ npcs # <<>>
    /\ \A i \in DOMAIN lightSources :
           lightSources[i].currentIntensity = lightSources[i].baseIntensity

(***************************************************************************)
(* performAttack as a function of the damage range, the target's health    *)
(* and the two rolls                                                       *)
(***************************************************************************)
\* The largest damage and the largest health drawn.
MAX_DAMAGE == 4
MAX_TARGET == 9

\* Rolls on both sides of the critical threshold, and one for every damage.
CriticalRolls == {0, UNIT \div 10 - 1, UNIT \div 10, UNIT - 1}

InitAttack ==
    /\ Is(Constructed)
    /\ \E lo \in 0 .. MAX_DAMAGE : \E hi \in lo .. MAX_DAMAGE : \E h \in 0 .. MAX_TARGET :
           call = [range |-> <<lo, hi>>, health |-> h, done |-> FALSE,
                   damage |-> 0, after |-> h]

Attack ==
    /\ ~call.done
    /\ \E rCrit \in CriticalRolls :
           \E rDmg \in IndexRolls(call.range[2] - call.range[1] + 1) \cup {UNIT - 1} :
               LET hit == performAttack(call.range, call.health, rCrit, rDmg)
               IN call' = [call EXCEPT !.done = TRUE, !.damage = hit.damage,
                                       !.after = hit.health]
    /\ UNCHANGED <<map, player, npcs, monsters, currentHealth, maxHealth, currentLevel,
                   isDead, isPaused, visibleTiles, exploredTiles, lightSources, pending>>

SpecAttack == InitAttack /\ [][Attack]_vars

\* C5: for every damage range <<min, max>> with 0 <= min <= max and every
\* outcome of the rolls, performAttack returns a damage d with
\* min <= d <= 2 * max, and the target's health afterwards is
\* max(0, health before - d), never below 0.
C5_DamageBounds ==
    ("done" \in DOMAIN call /\ call.done) =>
        /\ call.range[1] <= call.damage
        /\ call.damage <= 2 * call.range[2]
        /\ call.after = Max(0, call.health - call.damage)
        /\ call.after >= 0

\* A critical hit of the largest damage on a target it more than kills.
C5_Witness ==
    /\ "done" \in DOMAIN call /\ call.done
    /\ call.range[1] < call.range[2]
    /\ call.damage = 2 * call.range[2]
    /\ call.health > 0 /\ call.health < call.damage
    /\ call.after = 0

(***************************************************************************)
(* Successive monster attacks (the attack of moveMonsters) with every roll *)
(* at its maximum                                                          *)
(***************************************************************************)
\* this.maxHealth = this.currentHealth = 100 in the constructor.
FULL_HEALTH == 100

\* The number of successive attacks followed.
VOLLEY == 9

\* Math.random() at its maximum: no critical hit, the largest damage.
MaxRoll == UNIT - 1

InitVolley ==
    \E H \in {PLAYER_HEALTH, FULL_HEALTH} : \E mtype \in DOMAIN monsterStats :
        /\ Is([Constructed EXCEPT !.currentHealth = H, !.maxHealth = H])
        /\ call = [type |-> mtype, start |-> H, n |-> 0]

MonsterHit ==
    /\ call.n < VOLLEY
    /\ Assign(AttackPlayer(State, call.type, MaxRoll, MaxRoll))
    /\ call' = [call EXCEPT !.n = call.n + 1]

SpecVolley == InitVolley /\ [][MonsterHit]_vars

\* C10: with every roll at its maximum (the largest damage, no critical hit),
\* n successive monster attacks of range <<min, max>> on a player of health H
\* leave the health max(0, H - n * max); for H = 100, the range <<3, 7>> and
\* n = 9 that is 37.
C10_MaxRollVolley ==
    "n" \in DOMAIN call =>
        /\ currentHealth = Max(0, call.start - call.n * monsterStats[call.type].damage[2])
        /\ (/\ call.start = 100 /\ monsterStats[call.type].damage = <<3, 7>>
            /\ call.n = 9) => currentHealth = 37

\* Nine attacks of an orc (range <<3, 7>>) on the full health of 100.
C10_Witness ==
    /\ "n" \in DOMAIN call
    /\ call.start = 100 /\ call.type = "orc" /\ call.n = 9
    /\ currentHealth = 37

(***************************************************************************)
(* isValidMove as a function of the grid, the NPCs and the coordinate: a   *)
(* grid of plain floor in which one tile is of any kind and carries any    *)
(* feature of the tileset, an NPC, a monster or the player on it or        *)
(* beside it.                                                              *)
(***************************************************************************)
FloorTypes == {"floorDark", "floorStone1", "floorStone2", "floorStone3", "floorGrass1",
               "floorGrass2", "floorGrass3", "floorDirt1", "floorDirt2", "floorDirt3"}

TileFeatures == {"none", "door", "chest", "tree", "smallTree", "sapling", "mushroom",
                 "stairsDown"}

\* The tiles put to the test: two corners of the grid and its centre.
ProbeCells == {<<0, 0>>, <<CenterX, CenterY>>, <<MAP_WIDTH - 1, MAP_HEIGHT - 1>>}

\* Cells of the grid next to c: in its row, in its column, on its diagonal.
InRow(c) == <<IF c[1] + 1 < MAP_WIDTH THEN c[1] + 1 ELSE c[1] - 1, c[2]>>
InColumn(c) == <<c[1], IF c[2] + 1 < MAP_HEIGHT THEN c[2] + 1 ELSE c[2] - 1>>
OnDiagonal(c) == <<InRow(c)[1], InColumn(c)[2]>>

Occupants == {"none", "npc", "monster", "player"}

InitPassable ==
    \E c \in ProbeCells : \E ty \in WallTypes \cup FloorTypes : \E f \in TileFeatures :
        \E who \in Occupants :
            LET npc == IF who = "npc" THEN c ELSE InRow(c)
                mon == IF who = "monster" THEN c ELSE InColumn(c)
                pl == IF who = "player" THEN c ELSE OnDiagonal(c)
            IN /\ Is([Constructed EXCEPT
                         !.map = [k \in Cells |->
                                     IF k = c THEN [type |-> ty, feature |-> f]
                                     ELSE [type |-> "floorDirt1", feature |-> "none"]],
                         !.npcs = <<npc>>,
                         !.monsters = <<[x |-> mon[1], y |-> mon[2], type |-> "goblin",
                                         health |-> monsterStats["goblin"].health]>>,
                         !.player = pl])
               /\ call = [cell |-> c, x |-> c[1], y |-> c[2], done |-> FALSE,
                          result |-> FALSE]

\* isValidMove asked about the tile or a coordinate around it, inside the
\* grid or not.
Passable ==
    /\ ~call.done
    /\ \E d \in Directions \cup {<<0, 0>>} :
           LET x == call.cell[1] + d[1]
               y == call.cell[2] + d[2]
           IN call' = [call EXCEPT !.x = x, !.y = y, !.done = TRUE,
                                   !.result = isValidMove(map, npcs, x, y)]
    /\ UNCHANGED <<map, player, npcs, monsters, currentHealth, maxHealth, currentLevel,
                   isDead, isPaused, visibleTiles, exploredTiles, lightSources, pending>>

SpecPassable == InitPassable /\ [][Passable]_vars

\* C16: for every coordinate (x, y), isValidMove(x, y) is false exactly when
\* the coordinate is outside the grid, the tile is of a wall kind, the tile
\* carries a tree or a smallTree, or an NPC occupies the cell, and true
\* otherwise, wherever the monsters and the player stand.
C16_PassableExactly ==
    ("result" \in DOMAIN call /\ call.done) =>
        LET x == call.x
            y == call.y
            outside == x < 0 \/ x >= MAP_WIDTH \/ y < 0 \/ y >= MAP_HEIGHT
            blocked ==
                \/ outside
                \/ map[<<x, y>>].type \in WallTypes
                \/ map[<<x, y>>].feature \in {"tree", "smallTree"}
                \/ \E i \in DOMAIN npcs : npcs[i] = <<x, y>>
        IN call.result = ~blocked

\* isValidMove has answered true for a floor tile with a passable feature on
\* which a monster stands.
C16_Witness ==
    /\ "result" \in DOMAIN call /\ call.done /\ call.result
    /\ map[<<call.x, call.y>>].feature = "sapling"
    /\ MonsterAt(monsters, call.x, call.y)

(***************************************************************************)
(* One monster's turn of moveMonsters as a function of where the monster   *)
(* and the player stand, on a grid of plain floor, for every outcome of    *)
(* the rolls.                                                              *)
(***************************************************************************)
InitChase ==
    \E pl \in Cells : \E mon \in Cells \ {pl} :
        /\ Is([Constructed EXCEPT
                  !.map = [k \in Cells |-> [type |-> "floorDirt1", feature |-> "none"]],
                  !.player = pl,
                  !.monsters = <<[x |-> mon[1], y |-> mon[2], type |-> "goblin",
                                  health |-> monsterStats["goblin"].health]>>])
        /\ call = [from |-> mon, done |-> FALSE, roll |-> <<0, 0, 0, 0>>,
                   direction |-> <<0, 0>>, health |-> PLAYER_HEALTH]

\* The forEach body for the monster; call keeps where it stood, the rolls
\* and the direction it picked.
Chase ==
    /\ ~call.done
    /\ \E r \in TurnRolls(State, 1) :
           /\ Assign(MonsterTurn(State, 1, r))
           /\ call' = [call EXCEPT !.done = TRUE, !.roll = r,
                                   !.direction = MonsterDirection(monsters[1], player, r)]

SpecChase == InitChase /\ [][Chase]_vars

Cardinals == {<<-1, 0>>, <<1, 0>>, <<0, -1>>, <<0, 1>>}

\* The monster's turn is over and the monster was not adjacent to the player.
ChasedFromAfar ==
    /\ "direction" \in DOMAIN call /\ call.done
    /\ Max(Abs(call.from[1] - player[1]), Abs(call.from[2] - player[2])) > 1

\* The step of one cell along one axis that reduces the offset a.
Towards(a) == IF a > 0 THEN 1 ELSE -1

\* C18 as stated: a monster that is not adjacent to the player and is at
\* Manhattan distance less than 5 attempts a step of one cell toward the
\* player along the axis with the larger offset, a random cardinal direction
\* only when no axis is preferred (equal offsets); at Manhattan distance 5 or
\* more it attempts one random cardinal step.
C18_LargerAxis ==
    ChasedFromAfar =>
        LET ox == player[1] - call.from[1]
            oy == player[2] - call.from[2]
        IN /\ call.direction \in Cardinals
           /\ (Abs(ox) + Abs(oy) < 5 /\ Abs(ox) > Abs(oy)) =>
                  call.direction = <<Towards(ox), 0>>
           /\ (Abs(ox) + Abs(oy) < 5 /\ Abs(oy) > Abs(ox)) =>
                  call.direction = <<0, Towards(oy)>>

\* C18 amended: a monster that is not adjacent to the player attempts a step
\* of one cell in a cardinal direction: it moves there or stays, and the
\* player's health is untouched.  At Manhattan distance less than 5 the axis
\* is drawn with equal chance, whatever the offsets: horizontal (when the
\* draw is below one half and the horizontal offset is not 0) towards the
\* player, vertical otherwise towards the player, and any of the four
\* directions when the vertical axis is drawn or forced and the vertical
\* offset is 0.  At Manhattan distance 5 or more the direction is any of the
\* four.
C18_DrawnAxis ==
    ChasedFromAfar =>
        LET ox == player[1] - call.from[1]
            oy == player[2] - call.from[2]
            horizontal == call.roll[1] * 2 < UNIT
            there == <<call.from[1] + call.direction[1], call.from[2] + call.direction[2]>>
        IN /\ call.direction \in Cardinals
           /\ Abs(ox) + Abs(oy) < 5 =>
                  /\ (horizontal /\ ox # 0) => call.direction = <<Towards(ox), 0>>
                  /\ (~(horizontal /\ ox # 0) /\ oy # 0) =>
                         call.direction = <<0, Towards(oy)>>
           /\ <<monsters[1].x, monsters[1].y>> \in {call.from, there}
           /\ <<monsters[1].x, monsters[1].y>> = there <=> there \in Cells \ {player}
           /\ currentHealth = call.health

\* Within the detection range, the vertical offset the larger one: the
\* monster has stepped along the horizontal axis.
C18_Witness ==
    /\ ChasedFromAfar
    /\ Abs(player[1] - call.from[1]) + Abs(player[2] - call.from[2]) < 5
    /\ Abs(player[2] - call.from[2]) > Abs(player[1] - call.from[1])
    /\ call.direction[1] # 0
    /\ <<monsters[1].x, monsters[1].y>> # call.from

(***************************************************************************)
(* generateMap with its regeneration: the automaton may report a grid      *)
(* without a floor region any number of times in a row.                    *)
(***************************************************************************)
\* The regenerations in a row that the model follows.
REGENERATIONS == 3

\* What the automaton may report: no floor at all, floor only outside the
\* effective area (none is left in tempMap), or a cave.
RegenerationDraws(level) ==
    {{}, Cells \ EffectiveArea(level)} \cup {OpenCave(level) \ W : W \in SUBSET WallWindow(level)}

InitRegenerate ==
    /\ \E level \in 1 .. MAX_LEVELS : Is([Constructed EXCEPT !.currentLevel = level])
    /\ call = [regenerations |-> 0, returned |-> FALSE]

\* One run of generateMap's body: with no region it calls itself again,
\* otherwise it prunes, places the exit and returns.
Regenerate ==
    /\ ~call.returned
    /\ \E raw \in RegenerationDraws(currentLevel) : \E rStairs \in Rolls :
           IF HasRegion(currentLevel, raw)
           THEN /\ map' = generateMap(currentLevel, raw, 0, rStairs)
                /\ call' = [call EXCEPT !.returned = TRUE]
           ELSE /\ call.regenerations < REGENERATIONS
                /\ map' = map
                /\ call' = [call EXCEPT !.regenerations = @ + 1]
    /\ UNCHANGED <<player, npcs, monsters, currentHealth, maxHealth, currentLevel,
                   isDead, isPaused, visibleTiles, exploredTiles, lightSources, pending>>

SpecRegenerate == InitRegenerate /\ [][Regenerate]_vars

\* C24: level generation retries are bounded: when the random source keeps
\* producing grids with no floor region, generateMap stops after a capped
\* number of regenerations instead of running its body again; so after
\* REGENERATIONS regenerations in a row it is not about to draw once more.
C24_RetriesCapped ==
    "regenerations" \in DOMAIN call =>
        ~(call.regenerations = REGENERATIONS /\ ~call.returned)

(***************************************************************************)
(* processMovement for the inputs isValidMove rejects, on the grids of     *)
(* InitPassable: a tile of any kind with any feature next to the player,   *)
(* an NPC beside it, the edge of the grid around the corners.              *)
(***************************************************************************)
\* A key press towards a destination without a monster that isValidMove
\* rejects; call keeps the destination.
Press ==
    /\ ~call.done
    /\ \E d \in Directions :
           LET x == player[1] + d[1]
               y == player[2] + d[2]
           IN /\ ~MonsterAt(monsters, x, y)
              /\ ~isValidMove(map, npcs, x, y)
              /\ \E t \in processMovement(State, d) : Assign(t)
              /\ call' = [call EXCEPT !.x = x, !.y = y, !.done = TRUE]

SpecBlocked == InitPassable /\ [][Press]_vars

\* C25: a directional input whose destination is outside the grid, a wall, a
\* tile with a blocking feature or a tile occupied by an NPC is a silent
\* no-op: the player's position, the player's health, the monsters, the
\* depth, the grid and the visible and explored maps are all unchanged (and
\* no counter-attack is scheduled, no flag set).
C25_BlockedIsNoOp ==
    [][LET x == call'.x
           y == call'.y
           blocked ==
               \/ x < 0 \/ x >= MAP_WIDTH \/ y < 0 \/ y >= MAP_HEIGHT
               \/ map[<<x, y>>].type \in WallTypes
               \/ map[<<x, y>>].feature \in {"tree", "smallTree"}
               \/ \E i \in DOMAIN npcs : npcs[i] = <<x, y>>
       IN blocked => IsState(State)]_vars

\* The input has been pressed towards a floor tile that carries a tree.
C25_Witness ==
    /\ call.done
    /\ <<call.x, call.y>> = call.cell
    /\ map[call.cell].type \in FloorTypes /\ map[call.cell].feature = "tree"
    /\ Chebyshev(player, call.cell) = 1

(***************************************************************************)
(* findConnectedRegions as a function of tempMap: every wall/floor pattern *)
(* of a square block in the first and in the last corner of the grid,      *)
(* walls elsewhere.                                                        *)
(***************************************************************************)
REGION_SIDE == 3

RegionBlocks ==
    {{c \in Cells : c[1] < REGION_SIDE /\ c[2] < REGION_SIDE},
     {c \in Cells : c[1] >= MAP_WIDTH - REGION_SIDE /\ c[2] >= MAP_HEIGHT - REGION_SIDE}}

InitRegions ==
    /\ Is(Constructed)
    /\ \E B \in RegionBlocks : \E F \in SUBSET B :
           call = [floor |-> F, done |-> FALSE, regions |-> <<>>]

Regions ==
    /\ ~call.done
    /\ call' = [call EXCEPT !.done = TRUE, !.regions = findConnectedRegions(call.floor)]
    /\ UNCHANGED <<map, player, npcs, monsters, currentHealth, maxHealth, currentLevel,
                   isDead, isPaused, visibleTiles, exploredTiles, lightSources, pending>>

SpecRegions == InitRegions /\ [][Regions]_vars

\* The places <<i, j>> at which the regions R list the cell c.
PlacesOf(R, c) == {p \in UNION {{i} \X DOMAIN R[i] : i \in DOMAIN R} : R[p[1]][p[2]] = c}

\* C26: for every wall/floor grid, findConnectedRegions returns regions that
\* partition the floor cells: every floor cell is listed in exactly one
\* region (once), no wall cell is in any region, each region is a maximal
\* 4-connected set of floor cells, and a grid with no floor cell yields zero
\* regions.
C26_RegionsPartition ==
    ("regions" \in DOMAIN call /\ call.done) =>
        /\ \A c \in call.floor : Cardinality(PlacesOf(call.regions, c)) = 1
        /\ \A i \in DOMAIN call.regions :
               /\ call.regions[i] # <<>>
               /\ SeqToSet(call.regions[i]) \subseteq call.floor
               /\ SeqToSet(call.regions[i]) = Reach4(call.floor, {call.regions[i][1]})
        /\ call.floor = {} => call.regions = <<>>

\* Regions found for a grid with several regions, one of them of several
\* cells and bent (not a straight line).
C26_Witness ==
    /\ "regions" \in DOMAIN call /\ call.done
    /\ Len(call.regions) >= 3
    /\ \E i \in DOMAIN call.regions :
           /\ Len(call.regions[i]) >= 4
           /\ \E a, b \in SeqToSet(call.regions[i]) : a[1] # b[1] /\ a[2] # b[2]

(***************************************************************************)
(* placeMonsters as a function of the floor count.  The density cap        *)
(* reaches numMonsters only from ten times as many passable tiles on, more *)
(* than the grid of the model holds, so floorTileCount is drawn: a         *)
(* multiple of ten or one less, or the count of the grid itself.  The      *)
(* placement loop runs on the grid of the draw.                            *)
(***************************************************************************)
MAX_TENS == 14

TileCounts(m, npcList) ==
    {Cardinality(ValidCells(m, npcList))}
        \cup {10 * k - j : k \in 1 .. MAX_TENS, j \in {0, 1}}

\* The level set up by the draw ch, its monsters placed for floorTileCount.
MonstersFor(s, p, ch, floorTileCount) ==
    [s EXCEPT !.map = p.map, !.player = p.player, !.npcs = p.npcs,
              !.monsters = PlaceMonsterLoop(p.map, s.currentLevel, p.player, p.npcs,
                               <<>>, 1, AdjustedCount(s.currentLevel, floorTileCount),
                               ch.mon)]

CountedSetup(s, ch, p) ==
    \E floorTileCount \in TileCounts(p.map, p.npcs) :
        /\ Assign(MonstersFor(s, p, ch, floorTileCount))
        /\ call' = [floorTileCount |-> floorTileCount]

\* The open cave, whole or cut in two by the wall window.
CountedDraws(level) ==
    {ch \in SetupDraws(level) :
        ch.raw \in {OpenCave(level), OpenCave(level) \ WallWindow(level)}}

PlaceCounted ==
    /\ call = NoCall
    /\ \E ch \in CountedDraws(currentLevel) :
           /\ HasRegion(currentLevel, ch.raw)
           /\ CountedSetup(State, ch, Placement(currentLevel, NoPlayer, ch))

SpecMonsters == InitSetup /\ [][PlaceCounted]_vars

\* The spots open to the first monster.
FreeSpots == Len(AvailableSpots(map, player, npcs, <<>>))

\* C28: the number of monsters placed at level setup on depth L is at most
\* BASE_MONSTERS + floor(1.5 * L) and at most floor(10% of the passable
\* tiles), and equals the smaller of the two whenever that many spots are
\* free.
C28_MonsterCount ==
    "floorTileCount" \in DOMAIN call =>
        /\ Len(monsters) <= BASE_MONSTERS + (3 * currentLevel) \div 2
        /\ Len(monsters) <= call.floorTileCount \div 10
        /\ FreeSpots >= Min(BASE_MONSTERS + (3 * currentLevel) \div 2,
                            call.floorTileCount \div 10)
              => Len(monsters) = Min(BASE_MONSTERS + (3 * currentLevel) \div 2,
                                     call.floorTileCount \div 10)

\* A level with more than ten times numMonsters passable tiles: the depth's
\* count is placed.
C28_Witness ==
    /\ "floorTileCount" \in DOMAIN call
    /\ call.floorTileCount \div 10 > NumMonsters(currentLevel)
    /\ Len(monsters) = NumMonsters(currentLevel)

\* The density cap binding on the grid's own count.
C28_CapBinds ==
    /\ "floorTileCount" \in DOMAIN call
    /\ call.floorTileCount = Cardinality(ValidCells(map, npcs))
    /\ Len(monsters) = call.floorTileCount \div 10
    /\ Len(monsters) > 0

\* Too few free spots: the loop breaks early.
C28_LoopBreaks ==
    /\ "floorTileCount" \in DOMAIN call
    /\ Len(monsters) = FreeSpots
    /\ Len(monsters) < AdjustedCount(currentLevel, call.floorTileCount)

(***************************************************************************)
(* One tick of moveMonsters for two monsters, an NPC and the player in the *)
(* open cave of the first depth, for every outcome of the rolls.           *)
(***************************************************************************)
Goblin(c) ==
    [x |-> c[1], y |-> c[2], type |-> "goblin", health |-> monsterStats["goblin"].health]

InitTick ==
    \E pl \in OpenCave(1) : \E npc \in {c \in OpenCave(1) \ {pl} : c[1] = CenterX} :
        \E m1 \in OpenCave(1) \ {pl, npc} : \E m2 \in OpenCave(1) \ {pl, npc, m1} :
            /\ Is([Constructed EXCEPT
                      !.map = GridWithFloor(1, OpenCave(1), 0),
                      !.player = pl,
                      !.npcs = <<npc>>,
                      !.monsters = <<Goblin(m1), Goblin(m2)>>])
            /\ call = [ticked |-> FALSE, before |-> <<>>]

\* moveMonsters; call keeps the monsters as they were.
Tick ==
    /\ ~call.ticked
    /\ \E t \in moveMonsters(State) :
           /\ Assign(t)
           /\ call' = [ticked |-> TRUE, before |-> monsters]

SpecTick == InitTick /\ [][Tick]_vars

At(monster) == <<monster.x, monster.y>>

\* The monsters as monsters[i] meets them: those before it in the list after
\* their turns, those behind it where the tick found them.
OthersWhenProcessed(i) ==
    {At(monsters[j]) : j \in 1 .. i - 1}
        \cup {At(call.before[j]) : j \in i + 1 .. Len(call.before)}

\* C30: in one tick each monster changes position by at most one cardinal
\* step, and only to a destination that satisfies isValidMove and holds
\* neither the player, an NPC nor another monster when that monster is
\* processed; otherwise the monster stays where it is.
C30_MonsterStepGuarded ==
    ("before" \in DOMAIN call /\ call.ticked) =>
        /\ Len(monsters) = Len(call.before)
        /\ \A i \in DOMAIN monsters :
               \/ At(monsters[i]) = At(call.before[i])
               \/ /\ <<monsters[i].x - call.before[i].x,
                       monsters[i].y - call.before[i].y>> \in Cardinals
                  /\ isValidMove(map, npcs, monsters[i].x, monsters[i].y)
                  /\ At(monsters[i]) # player
                  /\ ~NpcAt(npcs, monsters[i].x, monsters[i].y)
                  /\ At(monsters[i]) \notin OthersWhenProcessed(i)

\* The second monster has stepped onto the tile the first one left in the
\* same tick.
C30_Witness ==
    /\ "before" \in DOMAIN call /\ call.ticked
    /\ At(monsters[2]) = At(call.before[1])
    /\ At(monsters[1]) # At(call.before[1])

\* The first monster stayed: the second one stood where it headed, and has
\* moved on since.
C30_Held ==
    /\ "before" \in DOMAIN call /\ call.ticked
    /\ At(monsters[1]) = At(call.before[1])
    /\ ~IsAdjacent(call.before[1], player)
    /\ At(monsters[2]) # At(call.before[2])
    /\ Abs(call.before[1].x - call.before[2].x)
           + Abs(call.before[1].y - call.before[2].y) = 1

====
